---- MODULE Spec2Model ----
(***************************************************************************)
(* Model of the MessageBox abstraction of KeePassXC (scriptable answer     *)
(* override, button-role mapping, default button selection).               *)
(*                                                                         *)
(* The repository holds two revisions of the class:                        *)
(*   - src/src/gui/MessageBox.cpp: every entry point goes through           *)
(*     messageBox(), one override slot m_nextAnswer of type                 *)
(*     MessageBox::Button;                                                  *)
(*   - src/unnamed/part_001 (header src/unnamed/part_000): critical,        *)
(*     information, question and warning forward to the QMessageBox         *)
(*     statics and share the slot m_nextAnswer (QMessageBox::StandardButton)*)
(*     while newQuestion builds its own dialog and has its own slot         *)
(*     m_newNextAnswer.                                                     *)
(* The variable build says which of the two is linked in.                  *)
(***************************************************************************)
EXTENDS Integers, Sequences, FiniteSets, TLC

(* ------------------------------ bounds --------------------------------- *)

\* Deepest nesting of modal dialogs (exec() runs a nested event loop).
MaxDepth == 2

\* Number of setNextAnswer / setNewNextAnswer calls in one run.
MaxSets == 2

\* m_fileWatchTimer.start calls in a behaviour.
MaxArms == 2

\* m_fileWatchTimer.start calls while a dialog of deleteEntries, lock or save
\* is open.
MaxDialogArms == 1

(* ------------------------- MessageBox::Button -------------------------- *)

Bit(n) == 2 ^ n

NoButton == 0
Ok == Bit(1)
Open == Bit(2)
Save == Bit(3)
Cancel == Bit(4)
Close == Bit(5)
Discard == Bit(6)
Apply == Bit(7)
Reset == Bit(8)
RestoreDefaults == Bit(9)
Help == Bit(10)
SaveAll == Bit(11)
Yes == Bit(12)
YesToAll == Bit(13)
No == Bit(14)
NoToAll == Bit(15)
Abort == Bit(16)
Retry == Bit(17)
Ignore == Bit(18)
Overwrite == Bit(19)
Delete == Bit(20)
\* The four kinds below exist only in the MessageBox.cpp revision (cases of
\* the switch in addButton); their values continue the enumeration in the
\* order of that switch.
Move == Bit(21)
Empty == Bit(22)
Remove == Bit(23)
Skip == Bit(24)

BuildSingle == "MessageBox.cpp"
BuildDual == "part_001"

First == Ok
Last(b) == IF b = BuildSingle THEN Skip ELSE Delete

\* The cases of the switch in addButton that create a button.
SwitchCases(b) ==
    {Ok, Open, Save, Cancel, Close, Discard, Apply, Reset, RestoreDefaults,
     Help, SaveAll, Yes, YesToAll, No, NoToAll, Abort, Retry, Ignore,
     Overwrite, Delete}
    \cup (IF b = BuildSingle THEN {Move, Empty, Remove, Skip} ELSE {})

\* QMessageBox::StandardButton, used by the part_001 revision for the legacy
\* slot; the code only compares these values and hands them to Qt.
QtNoButton == "QMessageBox::NoButton"
QtYes == "QMessageBox::Yes"
QtNo == "QMessageBox::No"
QtCancel == "QMessageBox::Cancel"
QtDiscard == "QMessageBox::Discard"

(* --------------------------- bit arithmetic ---------------------------- *)

RECURSIVE BitOr(_, _)
BitOr(x, y) ==
    IF x = 0 THEN y
    ELSE IF y = 0 THEN x
    ELSE (IF x % 2 = 1 \/ y % 2 = 1 THEN 1 ELSE 0) + 2 * BitOr(x \div 2, y \div 2)

\* The caller's expression  A | B | ...  for the buttons argument.
RECURSIVE Combine(_)
Combine(s) == IF s = <<>> THEN 0 ELSE BitOr(Head(s), Combine(Tail(s)))

(* ------------------------------- state --------------------------------- *)

VARIABLES
    build,          \* which revision of MessageBox is linked in
    m_nextAnswer,   \* static override slot (Button / StandardButton)
    m_newNextAnswer,\* static override slot of newQuestion (part_001 only)
    m_buttonMap,    \* static QMap<QAbstractButton*, Button>
    boxes,          \* stack of the dialogs whose exec() has not returned
    last,           \* the last call or return of the MessageBox interface
    setLog,         \* history: the setNextAnswer / setNewNextAnswer calls
    slotSrc,        \* history: which call of setLog wrote the value in a slot
    sinceSet        \* history: confirm calls on a slot since its last set call

\* DatabaseWidget, its database and the handler the GUI thread is in.
VARIABLES
    debugBuild,        \* Q_ASSERT is compiled in (no QT_NO_DEBUG)
    dwPc,              \* position of the GUI thread inside a DatabaseWidget handler
    entryState,        \* per entry: in a group, in the recycle bin, or deleted
    recycleBinEnabled, \* m_db->metadata()->recycleBinEnabled()
    selected,          \* deleteEntries: the selected rows
    inRecycleBin,      \* deleteEntries: local inRecycleBin
    answer,            \* deleteEntries: local answer
    setAnswer,         \* deleteEntries: local setAnswer
    exitCode,          \* return code handed to QApplication::exit, 0 if none
    question_clickedButton,  \* deleteEntries: question.clickedButton()
    ret,               \* what the last lock / save / saveAs call returned
    mode,              \* currentMode(), by the widget currentWidget() is
    modified,          \* m_db->isModified()
    AutoSaveOnExit,    \* config()->get("AutoSaveOnExit")
    result,            \* lock: local result
    readOnly,          \* m_db->isReadOnly()
    hasPath,           \* !m_db->filePath().isEmpty()
    UseAtomicSaves,    \* config()->get("UseAtomicSaves")
    m_ignoreAutoReload,
    m_fileWatchTimer,  \* active or not
    m_fileWatchUnblockTimer, \* active or not
    firstAttempt,      \* save: parameter attempt of the outermost call
    attempt,           \* save: parameter attempt of the running call
    ok,                \* save: local ok, the outcome of the last m_db->save
    choice,            \* save: local choice
    saveAsDepth,       \* saveAs calls that have not returned
    writes,            \* save: m_db->save calls since the outermost save began
    errorShown,        \* save: m_messageWidget shows the error of a failed save
    AutoReloadOnChange,\* config()->get("AutoReloadOnChange")
    watching,          \* m_fileWatcher holds the path of the database file
    reloadStack,       \* reloadDatabaseFile executions that have not returned
    replacements,      \* history: replaceDatabase calls of reloadDatabaseFile
    arms,              \* history: m_fileWatchTimer.start calls
    reloadCalls,       \* history: reloadDatabaseFile calls
    cancelled,         \* history: m_fileWatchTimer.stop calls on the active timer
    cmdString,         \* openUrlForEntry: the resolved URL of the entry
    RememberCmdExecAttr, \* the entry's attribute of that name, "none" if absent
    checkbox,          \* openUrlForEntry: "Remember my choice" is checked
    remember,          \* openUrlForEntry: local remember
    msgboxResult,      \* openUrlForEntry: local result
    prompted,          \* history: the last openUrlForEntry call opened its prompt
    started,           \* history: the last openUrlForEntry call started the command
    currentGroup,      \* uuid of m_groupView->currentGroup(), NullUuid if none
    currentEntry,      \* uuid of m_entryView->currentEntry(), NullUuid if none
    m_groupBeforeLock,
    m_entryBeforeLock,
    m_db,              \* which Database object m_db points to
    databaseLocked,    \* history: the last lock call emitted databaseLocked
    savedInLock        \* history: m_db->save succeeded in the last lock call

delVars == <<entryState, recycleBinEnabled, selected, inRecycleBin, answer,
             setAnswer, exitCode, question_clickedButton>>

viewVars == <<currentGroup, currentEntry, m_groupBeforeLock, m_entryBeforeLock>>

lockVars == <<mode, modified, AutoSaveOnExit, result, viewVars, m_db, databaseLocked,
              savedInLock>>

saveVars == <<readOnly, hasPath, UseAtomicSaves, m_ignoreAutoReload, m_fileWatchTimer,
              m_fileWatchUnblockTimer, firstAttempt, attempt, ok, choice,
              saveAsDepth, writes, errorShown>>

watchVars == <<AutoReloadOnChange, watching, reloadStack, replacements, arms,
               reloadCalls>>

urlVars == <<cmdString, RememberCmdExecAttr, checkbox, remember, msgboxResult,
             prompted, started>>

dwVars == <<debugBuild, dwPc, ret, delVars, lockVars, saveVars, watchVars, cancelled,
            urlVars>>

mbVars == <<build, m_nextAnswer, m_newNextAnswer, m_buttonMap, boxes, last,
            setLog, slotSrc, sinceSet>>

vars == <<build, m_nextAnswer, m_newNextAnswer, m_buttonMap, boxes, last,
          setLog, slotSrc, sinceSet, dwVars>>

Slots == {"m_nextAnswer", "m_newNextAnswer"}

\* The slot an entry point reads.
SlotOf(fn) == IF fn = "newQuestion" THEN "m_newNextAnswer" ELSE "m_nextAnswer"

\* The "no answer scripted" value of a slot.
NoneOf(slot) ==
    IF build = BuildDual /\ slot = "m_nextAnswer" THEN QtNoButton ELSE NoButton

SlotValue(slot) == IF slot = "m_nextAnswer" THEN m_nextAnswer ELSE m_newNextAnswer

\* A QAbstractButton* is modelled by the dialog it belongs to (position in
\* the stack of open dialogs) and its creation index in that dialog.
Handle(pos, i) == <<pos, i>>

\* What clickedButton() yields when the activated button is none of the
\* buttons addButton created (a QMessageBox without buttons gets Qt's own Ok).
ForeignButton == <<0, 0>>

EmptyMap == [h \in {} |-> NoButton]

NoCall == [op |-> "none", fn |-> "", path |-> "", val |-> NoButton, src |-> 0,
           constructed |-> FALSE, combined |-> <<>>, buttons |-> 0,
           defaultButton |-> NoButton, clicked |-> NoButton, depth |-> 0]

\* The entries of the database.
Entries == {1, 2}

\* A DatabaseWidget showing an unlocked database, no handler running.
DelInit ==
    /\ entryState = [e \in Entries |-> "group"]
    /\ recycleBinEnabled = TRUE
    /\ selected = {}
    /\ inRecycleBin = FALSE
    /\ answer = NoButton
    /\ setAnswer = NoButton
    /\ exitCode = 0
    /\ question_clickedButton = "none"

\* QUuid(), the null uuid.
NullUuid == "QUuid()"

\* Lines 320-452: no lock has happened, nothing is selected.
ViewInit ==
    /\ currentGroup = NullUuid
    /\ currentEntry = NullUuid
    /\ m_groupBeforeLock = NullUuid
    /\ m_entryBeforeLock = NullUuid
    /\ m_db = 0
    /\ databaseLocked = FALSE
    /\ savedInLock = FALSE

LockInit ==
    /\ mode = "ViewMode"
    /\ modified = FALSE
    /\ AutoSaveOnExit = FALSE
    /\ result = QtNoButton
    /\ ViewInit

SaveInit ==
    /\ readOnly = FALSE
    /\ hasPath = TRUE
    /\ UseAtomicSaves = TRUE
    /\ m_ignoreAutoReload = FALSE
    /\ m_fileWatchTimer = FALSE
    /\ m_fileWatchUnblockTimer = FALSE
    /\ firstAttempt = 0
    /\ attempt = 0
    /\ ok = TRUE
    /\ choice = QtNoButton
    /\ saveAsDepth = 0
    /\ writes = 0
    /\ errorShown = FALSE

\* No openUrlForEntry call has been made; the entry has a web URL.
UrlInit ==
    /\ cmdString = "https://"
    /\ RememberCmdExecAttr = "none"
    /\ checkbox = FALSE
    /\ remember = FALSE
    /\ msgboxResult = QtNoButton
    /\ prompted = FALSE
    /\ started = FALSE

\* Lines 437-439 and 1042: a loaded database is watched, nothing is pending.
WatchInit ==
    /\ watching = hasPath
    /\ reloadStack = <<>>
    /\ replacements = 0
    /\ arms = 0
    /\ reloadCalls = 0

DwInit ==
    /\ debugBuild = FALSE
    /\ dwPc = "idle"
    /\ ret = "none"
    /\ DelInit
    /\ LockInit
    /\ SaveInit
    /\ AutoReloadOnChange = FALSE
    /\ watching = TRUE
    /\ reloadStack = <<>>
    /\ replacements = 0
    /\ arms = 0
    /\ reloadCalls = 0
    /\ cancelled = 0
    /\ UrlInit

Init ==
    /\ build \in {BuildSingle, BuildDual}
    /\ m_nextAnswer = (IF build = BuildDual THEN QtNoButton ELSE NoButton)
    /\ m_newNextAnswer = NoButton
    /\ m_buttonMap = EmptyMap
    /\ boxes = <<>>
    /\ last = NoCall
    /\ setLog = <<>>
    /\ slotSrc = [s \in Slots |-> 0]
    /\ sinceSet = [s \in Slots |-> 0]
    /\ DwInit

(* ------------------------------ inputs --------------------------------- *)

\* Values handed to setNextAnswer (MessageBox.cpp) and setNewNextAnswer.
SetValues == {NoButton, Cancel, NoToAll}

\* Values handed to setNextAnswer of part_001.
QtSetValues == {QtNoButton, QtYes, QtCancel}

\* buttons arguments, as the caller writes them: the operands of  |.
\* Bit(0) lies below First and Bit(25) above Last of both revisions.
Requests ==
    {<<Delete, Cancel>>, <<Cancel, Ok>>, <<Ok, Cancel>>, <<>>,
     <<Bit(25), Delete, Bit(0)>>}

Defaults == {NoButton, Cancel}

\* What an event handler running inside exec() asks: reloadDatabaseFile.
NestedRequests == {<<Yes, No>>}

QtRequests == {{QtYes, QtNo}, {QtDiscard, QtCancel}}

QtDefaults == {QtNoButton, QtCancel}

(* --------------------------- button creation --------------------------- *)

\* b & buttons, for a b that has exactly one bit set (First and its shifts).
TestBit(b, buttons) == (buttons \div b) % 2 = 1

\* addButton(box, button): st.created lists the kinds of the buttons the
\* dialog at stack position pos has so far, st.map is m_buttonMap.  The kinds
\* outside the switch would insert an uninitialised pointer; the loop below
\* hands in kinds of [First..Last] only, which the switch covers.
addButton(st, pos, button) ==
    IF button = NoButton THEN st
    ELSE IF button \in SwitchCases(build)
    THEN [created |-> Append(st.created, button),
          map |-> (Handle(pos, Len(st.created) + 1) :> button) @@ st.map]
    ELSE [created |-> st.created, map |-> (ForeignButton :> button) @@ st.map]

\* Variant of the loop that visits the kinds from Last down to First.
RECURSIVE ButtonLoop_Descending(_, _, _, _)
ButtonLoop_Descending(b, st, pos, buttons) ==
    IF b <= Last(build)
    THEN LET rest == ButtonLoop_Descending(2 * b, st, pos, buttons)
         IN IF (buttons \div b) % 2 = 1
            THEN [created |-> Append(rest.created, b),
                  map |-> (<<pos, Len(rest.created) + 1>> :> b) @@ rest.map]
            ELSE rest
    ELSE st

\* Variant of the loop with the condition  b < Last.
RECURSIVE ButtonLoop_SkipsLast(_, _, _, _)
ButtonLoop_SkipsLast(b, st, pos, buttons) ==
    IF b < Last(build)
    THEN ButtonLoop_SkipsLast(2 * b,
                    IF (buttons \div b) % 2 = 1
                    THEN [created |-> Append(st.created, b),
                          map |-> (<<pos, Len(st.created) + 1>> :> b) @@ st.map]
                    ELSE st,
                    pos, buttons)
    ELSE st

\* for (b = First; b <= Last; b <<= 1) if (b & buttons) addButton(box, b);
RECURSIVE ButtonLoop(_, _, _, _)
ButtonLoop(b, st, pos, buttons) ==
    IF b <= Last(build)
    THEN ButtonLoop(2 * b,
                    IF TestBit(b, buttons) THEN addButton(st, pos, b) ELSE st,
                    pos, buttons)
    ELSE st

\* The buttons of the dialog at stack position pos.
OwnButtons(pos, created) == {Handle(pos, i) : i \in 1..Len(created)}

\* m_buttonMap.keys(defaultButton)
KeysOf(map, button) == {h \in DOMAIN map : map[h] = button}

\* m_buttonMap[clicked]: a missing key yields a default-constructed Button.
Lookup(map, h) == IF h \in DOMAIN map THEN map[h] ELSE NoButton

(* ------------------------- history bookkeeping ------------------------- *)

Sat(n) == IF n >= 2 THEN 2 ELSE n + 1

\* A set call on slot with argument arg, after which the slot holds newVal.
NoteSet(slot, arg, newVal) ==
    LET old == slotSrc[slot]
        marked == [i \in 1..Len(setLog) |->
                     IF i = old THEN [setLog[i] EXCEPT !.dead = TRUE] ELSE setLog[i]]
    IN /\ setLog' = Append(marked, [slot |-> slot, arg |-> arg, supplied |-> 0,
                                    dead |-> FALSE])
       /\ slotSrc' = [slotSrc EXCEPT ![slot] =
                        IF newVal = arg THEN Len(setLog) + 1 ELSE old]
       /\ sinceSet' = [sinceSet EXCEPT ![slot] = 0]

\* A confirm call on slot; override says that it returned the slot's value,
\* newVal is what the slot holds afterwards.
NoteConfirm(slot, override, newVal) ==
    LET src == slotSrc[slot]
    IN /\ setLog' = [i \in 1..Len(setLog) |->
                       IF override /\ i = src
                       THEN [setLog[i] EXCEPT !.supplied = Sat(@)]
                       ELSE setLog[i]]
       /\ slotSrc' = [slotSrc EXCEPT ![slot] =
                        IF newVal = NoneOf(slot) THEN 0 ELSE src]
       /\ sinceSet' = [sinceSet EXCEPT ![slot] = Sat(@)]

UnchangedHistory == UNCHANGED <<setLog, slotSrc, sinceSet>>

(* ------------------------ MessageBox.cpp revision ---------------------- *)

\* Lines 33-51 of messageBox and 76-88 of newQuestion: build the dialog and
\* enter exec().  setsDefault is FALSE for newQuestion, which has no
\* setDefaultButton call.  keys(defaultButton)[0] is the key with the lowest
\* address, any of the keys; QMessageBox::setDefaultButton ignores a button
\* that does not belong to the box.
DialogPath(fn, combined, defaultButton, setsDefault) ==
    /\ Len(boxes) < MaxDepth
    /\ \E buttons \in {Combine(combined)} :
       \E st \in {ButtonLoop(First, [created |-> <<>>, map |-> m_buttonMap],
                             Len(boxes) + 1, buttons)} :
       LET own == OwnButtons(Len(boxes) + 1, st.created)
           defPtrList == IF setsDefault /\ defaultButton # NoButton
                         THEN KeysOf(st.map, defaultButton) ELSE {}
       IN /\ \E d \in (IF defPtrList = {} THEN {{}}
                       ELSE {{h} \cap own : h \in defPtrList}) :
               boxes' = Append(boxes, [fn |-> fn, qt |-> FALSE, combined |-> combined,
                                       buttons |-> buttons,
                                       defaultButton |-> defaultButton,
                                       created |-> st.created, def |-> d])
          /\ m_buttonMap' = st.map
          /\ last' = [op |-> "exec", fn |-> fn, path |-> "dialog", val |-> NoButton,
                      src |-> 0, constructed |-> (boxes' # boxes),
                      combined |-> combined, buttons |-> buttons,
                      defaultButton |-> defaultButton, clicked |-> NoButton,
                      depth |-> Len(boxes)]
    /\ UNCHANGED <<build, m_nextAnswer, m_newNextAnswer>>
    /\ NoteConfirm(SlotOf(fn), FALSE, SlotValue(SlotOf(fn)))

\* Variant of the else branch that forgets  m_nextAnswer = NoButton.
OverridePath_NoReset(fn, combined, defaultButton) ==
    /\ m_nextAnswer' = m_nextAnswer
    /\ UNCHANGED <<build, m_newNextAnswer, m_buttonMap, boxes>>
    /\ last' = [op |-> "return", fn |-> fn, path |-> "override", val |-> m_nextAnswer,
                src |-> slotSrc["m_nextAnswer"], constructed |-> (boxes' # boxes),
                combined |-> combined, buttons |-> Combine(combined),
                defaultButton |-> defaultButton, clicked |-> NoButton,
                depth |-> Len(boxes)]
    /\ NoteConfirm("m_nextAnswer", TRUE, m_nextAnswer')

\* Lines 58-60 of messageBox: hand out the scripted answer and reset the slot.
OverridePath(fn, combined, defaultButton) ==
    /\ m_nextAnswer' = NoButton
    /\ UNCHANGED <<build, m_newNextAnswer, m_buttonMap, boxes>>
    /\ last' = [op |-> "return", fn |-> fn, path |-> "override", val |-> m_nextAnswer,
                src |-> slotSrc["m_nextAnswer"], constructed |-> (boxes' # boxes),
                combined |-> combined, buttons |-> Combine(combined),
                defaultButton |-> defaultButton, clicked |-> NoButton,
                depth |-> Len(boxes)]
    /\ NoteConfirm("m_nextAnswer", TRUE, m_nextAnswer')

\* Variant that honours the scripted answer only if it was asked for.
messageBox_MemberCheck(fn, combined, defaultButton) ==
    /\ build = BuildSingle
    /\ IF m_nextAnswer = NoButton \/ ~TestBit(m_nextAnswer, Combine(combined))
       THEN DialogPath(fn, combined, defaultButton, TRUE)
       ELSE OverridePath(fn, combined, defaultButton)

messageBox(fn, combined, defaultButton) ==
    /\ build = BuildSingle
    /\ IF m_nextAnswer = NoButton
       THEN DialogPath(fn, combined, defaultButton, TRUE)
       ELSE OverridePath(fn, combined, defaultButton)

critical(combined, defaultButton) == messageBox("critical", combined, defaultButton)

information(combined, defaultButton) == messageBox("information", combined, defaultButton)

question(combined, defaultButton) == messageBox("question", combined, defaultButton)

warning(combined, defaultButton) == messageBox("warning", combined, defaultButton)

\* Variant that keeps an answer that is already scripted.
setNextAnswer_FirstWins(button) ==
    /\ build = BuildSingle
    /\ Len(setLog) < MaxSets
    /\ m_nextAnswer' = (IF m_nextAnswer # NoButton THEN m_nextAnswer ELSE button)
    /\ UNCHANGED <<build, m_newNextAnswer, m_buttonMap, boxes>>
    /\ last' = [NoCall EXCEPT !.op = "set", !.fn = "setNextAnswer", !.val = button,
                              !.depth = Len(boxes)]
    /\ NoteSet("m_nextAnswer", button, m_nextAnswer')

setNextAnswer(button) ==
    /\ build = BuildSingle
    /\ Len(setLog) < MaxSets
    /\ m_nextAnswer' = button
    /\ UNCHANGED <<build, m_newNextAnswer, m_buttonMap, boxes>>
    /\ last' = [NoCall EXCEPT !.op = "set", !.fn = "setNextAnswer", !.val = button,
                              !.depth = Len(boxes)]
    /\ NoteSet("m_nextAnswer", button, m_nextAnswer')

\* Variant of the return from exec() that also resets m_nextAnswer.
execReturns_ClearsSlot(clickedButton) ==
    LET pos == Len(boxes)
        box == boxes[pos]
        own == OwnButtons(pos, box.created)
    IN /\ boxes # <<>>
       /\ ~box.qt
       /\ clickedButton \in (IF own = {} THEN {ForeignButton} ELSE own)
       /\ boxes' = SubSeq(boxes, 1, pos - 1)
       /\ m_buttonMap' = EmptyMap
       /\ m_nextAnswer' = NoneOf("m_nextAnswer")
       /\ UNCHANGED <<build, m_newNextAnswer>>
       /\ last' = [op |-> "return", fn |-> box.fn, path |-> "dialog",
                   val |-> Lookup(m_buttonMap, clickedButton), src |-> 0,
                   constructed |-> TRUE, combined |-> box.combined,
                   buttons |-> box.buttons, defaultButton |-> box.defaultButton,
                   clicked |-> IF clickedButton \in own
                               THEN box.created[clickedButton[2]] ELSE NoButton,
                   depth |-> pos - 1]
       /\ UnchangedHistory

\* Variant of the return from exec() without  m_buttonMap.clear().
execReturns_KeepsMap(clickedButton) ==
    LET pos == Len(boxes)
        box == boxes[pos]
        own == OwnButtons(pos, box.created)
    IN /\ boxes # <<>>
       /\ ~box.qt
       /\ clickedButton \in (IF own = {} THEN {ForeignButton} ELSE own)
       /\ boxes' = SubSeq(boxes, 1, pos - 1)
       /\ m_buttonMap' = m_buttonMap
       /\ UNCHANGED <<build, m_nextAnswer, m_newNextAnswer>>
       /\ last' = [op |-> "return", fn |-> box.fn, path |-> "dialog",
                   val |-> Lookup(m_buttonMap, clickedButton), src |-> 0,
                   constructed |-> TRUE, combined |-> box.combined,
                   buttons |-> box.buttons, defaultButton |-> box.defaultButton,
                   clicked |-> IF clickedButton \in own
                               THEN box.created[clickedButton[2]] ELSE NoButton,
                   depth |-> pos - 1]
       /\ UnchangedHistory

\* Lines 51-55 of messageBox and 88-92 of newQuestion: exec() returns once
\* the operator activated a button of the topmost dialog.
execReturns(clickedButton) ==
    LET pos == Len(boxes)
        box == boxes[pos]
        own == OwnButtons(pos, box.created)
    IN /\ boxes # <<>>
       /\ ~box.qt
       /\ clickedButton \in (IF own = {} THEN {ForeignButton} ELSE own)
       /\ boxes' = SubSeq(boxes, 1, pos - 1)
       /\ m_buttonMap' = EmptyMap
       /\ UNCHANGED <<build, m_nextAnswer, m_newNextAnswer>>
       /\ last' = [op |-> "return", fn |-> box.fn, path |-> "dialog",
                   val |-> Lookup(m_buttonMap, clickedButton), src |-> 0,
                   constructed |-> TRUE, combined |-> box.combined,
                   buttons |-> box.buttons, defaultButton |-> box.defaultButton,
                   clicked |-> IF clickedButton \in own
                               THEN box.created[clickedButton[2]] ELSE NoButton,
                   depth |-> pos - 1]
       /\ UnchangedHistory

(* -------------------------- part_001 revision -------------------------- *)

\* return QMessageBox::critical(parent, title, text, buttons, defaultButton);
\* and the same for information, question, warning: Qt builds and runs the
\* dialog, m_buttonMap is not involved.
QtStatic(fn, buttons, defaultButton) ==
    /\ Len(boxes) < MaxDepth
    /\ boxes' = Append(boxes, [fn |-> fn, qt |-> TRUE, combined |-> <<>>,
                               buttons |-> buttons, defaultButton |-> defaultButton,
                               created |-> <<>>, def |-> {}])
    /\ UNCHANGED <<build, m_nextAnswer, m_newNextAnswer, m_buttonMap>>
    /\ last' = [op |-> "exec", fn |-> fn, path |-> "dialog", val |-> QtNoButton,
                src |-> 0, constructed |-> (boxes' # boxes), combined |-> <<>>,
                buttons |-> buttons, defaultButton |-> defaultButton,
                clicked |-> QtNoButton, depth |-> Len(boxes)]
    /\ NoteConfirm("m_nextAnswer", FALSE, m_nextAnswer)

\* Variant of the else branch that forgets  m_nextAnswer = QMessageBox::NoButton.
StdOverride_NoReset(fn, buttons, defaultButton) ==
    /\ m_nextAnswer' = m_nextAnswer
    /\ UNCHANGED <<build, m_newNextAnswer, m_buttonMap, boxes>>
    /\ last' = [op |-> "return", fn |-> fn, path |-> "override", val |-> m_nextAnswer,
                src |-> slotSrc["m_nextAnswer"], constructed |-> (boxes' # boxes),
                combined |-> <<>>, buttons |-> buttons,
                defaultButton |-> defaultButton, clicked |-> QtNoButton,
                depth |-> Len(boxes)]
    /\ NoteConfirm("m_nextAnswer", TRUE, m_nextAnswer')

\* The else branch of critical, information, question and warning.
StdOverride(fn, buttons, defaultButton) ==
    /\ m_nextAnswer' = QtNoButton
    /\ UNCHANGED <<build, m_newNextAnswer, m_buttonMap, boxes>>
    /\ last' = [op |-> "return", fn |-> fn, path |-> "override", val |-> m_nextAnswer,
                src |-> slotSrc["m_nextAnswer"], constructed |-> (boxes' # boxes),
                combined |-> <<>>, buttons |-> buttons,
                defaultButton |-> defaultButton, clicked |-> QtNoButton,
                depth |-> Len(boxes)]
    /\ NoteConfirm("m_nextAnswer", TRUE, m_nextAnswer')

criticalStd(buttons, defaultButton) ==
    /\ build = BuildDual
    /\ IF m_nextAnswer = QtNoButton
       THEN QtStatic("critical", buttons, defaultButton)
       ELSE StdOverride("critical", buttons, defaultButton)

informationStd(buttons, defaultButton) ==
    /\ build = BuildDual
    /\ IF m_nextAnswer = QtNoButton
       THEN QtStatic("information", buttons, defaultButton)
       ELSE StdOverride("information", buttons, defaultButton)

questionStd(buttons, defaultButton) ==
    /\ build = BuildDual
    /\ IF m_nextAnswer = QtNoButton
       THEN QtStatic("question", buttons, defaultButton)
       ELSE StdOverride("question", buttons, defaultButton)

\* Variant of warning that does not look at the slot.
warningStd_NoSlot(buttons, defaultButton) ==
    /\ build = BuildDual
    /\ QtStatic("warning", buttons, defaultButton)

warningStd(buttons, defaultButton) ==
    /\ build = BuildDual
    /\ IF m_nextAnswer = QtNoButton
       THEN QtStatic("warning", buttons, defaultButton)
       ELSE StdOverride("warning", buttons, defaultButton)

\* Variant of the else branch that forgets  m_newNextAnswer = NoButton.
NewOverride_NoReset(combined, defaultButton) ==
    /\ m_newNextAnswer' = m_newNextAnswer
    /\ UNCHANGED <<build, m_nextAnswer, m_buttonMap, boxes>>
    /\ last' = [op |-> "return", fn |-> "newQuestion", path |-> "override",
                val |-> m_newNextAnswer, src |-> slotSrc["m_newNextAnswer"],
                constructed |-> (boxes' # boxes), combined |-> combined,
                buttons |-> Combine(combined), defaultButton |-> defaultButton,
                clicked |-> NoButton, depth |-> Len(boxes)]
    /\ NoteConfirm("m_newNextAnswer", TRUE, m_newNextAnswer')

\* Lines 95-97 of newQuestion.
NewOverride(combined, defaultButton) ==
    /\ m_newNextAnswer' = NoButton
    /\ UNCHANGED <<build, m_nextAnswer, m_buttonMap, boxes>>
    /\ last' = [op |-> "return", fn |-> "newQuestion", path |-> "override",
                val |-> m_newNextAnswer, src |-> slotSrc["m_newNextAnswer"],
                constructed |-> (boxes' # boxes), combined |-> combined,
                buttons |-> Combine(combined), defaultButton |-> defaultButton,
                clicked |-> NoButton, depth |-> Len(boxes)]
    /\ NoteConfirm("m_newNextAnswer", TRUE, m_newNextAnswer')

newQuestion(combined, defaultButton) ==
    /\ build = BuildDual
    /\ IF m_newNextAnswer = NoButton
       THEN DialogPath("newQuestion", combined, defaultButton, FALSE)
       ELSE NewOverride(combined, defaultButton)

setNextAnswerStd(button) ==
    /\ build = BuildDual
    /\ Len(setLog) < MaxSets
    /\ m_nextAnswer' = button
    /\ UNCHANGED <<build, m_newNextAnswer, m_buttonMap, boxes>>
    /\ last' = [NoCall EXCEPT !.op = "set", !.fn = "setNextAnswer", !.val = button,
                              !.depth = Len(boxes)]
    /\ NoteSet("m_nextAnswer", button, m_nextAnswer')

\* Variant of setNewNextAnswer that also resets the legacy slot.
setNewNextAnswer_ResetsLegacy(button) ==
    /\ build = BuildDual
    /\ Len(setLog) < MaxSets
    /\ m_newNextAnswer' = button
    /\ m_nextAnswer' = QtNoButton
    /\ UNCHANGED <<build, m_buttonMap, boxes>>
    /\ last' = [NoCall EXCEPT !.op = "set", !.fn = "setNewNextAnswer", !.val = button,
                              !.depth = Len(boxes)]
    /\ NoteSet("m_newNextAnswer", button, m_newNextAnswer')

setNewNextAnswer(button) ==
    /\ build = BuildDual
    /\ Len(setLog) < MaxSets
    /\ m_newNextAnswer' = button
    /\ UNCHANGED <<build, m_nextAnswer, m_buttonMap, boxes>>
    /\ last' = [NoCall EXCEPT !.op = "set", !.fn = "setNewNextAnswer", !.val = button,
                              !.depth = Len(boxes)]
    /\ NoteSet("m_newNextAnswer", button, m_newNextAnswer')

\* The QMessageBox static returns the standard button the operator chose.
qtReturns(standardButton) ==
    LET pos == Len(boxes)
        box == boxes[pos]
    IN /\ boxes # <<>>
       /\ box.qt
       /\ standardButton \in box.buttons
       /\ boxes' = SubSeq(boxes, 1, pos - 1)
       /\ UNCHANGED <<build, m_nextAnswer, m_newNextAnswer, m_buttonMap>>
       /\ last' = [op |-> "return", fn |-> box.fn, path |-> "dialog",
                   val |-> standardButton,
                   src |-> 0, constructed |-> TRUE, combined |-> <<>>,
                   buttons |-> box.buttons, defaultButton |-> box.defaultButton,
                   clicked |-> standardButton, depth |-> pos - 1]
       /\ UnchangedHistory

(* ----------------------------- the callers ----------------------------- *)

\* critical, information and warning are called as the callers in the
\* sources do (one button set each), question and newQuestion with every
\* request.  Tests and operator-driven callers run when no dialog is open; while a
\* dialog is open the event loop keeps delivering timer events, whose
\* handler reloadDatabaseFile asks MessageBox::question (Yes | No, no default).
TopLevel == boxes = <<>>

MayAsk(fn, combined, defaultButton) ==
    \/ TopLevel
    \/ fn = "question" /\ combined \in NestedRequests /\ defaultButton = NoButton

MayAskStd(fn, buttons, defaultButton) ==
    \/ TopLevel
    \/ fn = "question" /\ buttons = {QtYes, QtNo} /\ defaultButton = QtNoButton

Next ==
    \/ \E d \in {NoButton, Ok} : MayAsk("critical", <<Ok>>, d) /\ critical(<<Ok>>, d)
          /\ UNCHANGED dwVars
    \/ MayAsk("information", <<Ok>>, NoButton) /\ information(<<Ok>>, NoButton)
          /\ UNCHANGED dwVars
    \/ \E c \in Requests \cup NestedRequests, d \in Defaults :
          MayAsk("question", c, d) /\ question(c, d)
          /\ UNCHANGED dwVars
    \/ MayAsk("warning", <<Yes, Cancel>>, Cancel) /\ warning(<<Yes, Cancel>>, Cancel)
          /\ UNCHANGED dwVars
    \/ \E b \in SetValues : TopLevel /\ setNextAnswer(b)
          /\ UNCHANGED dwVars
    \/ \E h \in {ForeignButton} \cup {Handle(Len(boxes), i) : i \in 1..2} : execReturns(h)
          /\ UNCHANGED dwVars
    \/ MayAskStd("critical", {QtDiscard, QtCancel}, QtCancel)
          /\ criticalStd({QtDiscard, QtCancel}, QtCancel)
          /\ UNCHANGED dwVars
    \/ MayAskStd("information", {QtYes, QtNo}, QtNoButton)
          /\ informationStd({QtYes, QtNo}, QtNoButton)
          /\ UNCHANGED dwVars
    \/ \E c \in QtRequests, d \in QtDefaults :
          MayAskStd("question", c, d) /\ questionStd(c, d)
          /\ UNCHANGED dwVars
    \/ MayAskStd("warning", {QtDiscard, QtCancel}, QtCancel)
          /\ warningStd({QtDiscard, QtCancel}, QtCancel)
          /\ UNCHANGED dwVars
    \/ \E c \in Requests, d \in Defaults : TopLevel /\ newQuestion(c, d)
          /\ UNCHANGED dwVars
    \/ \E b \in QtSetValues : TopLevel /\ setNextAnswerStd(b)
          /\ UNCHANGED dwVars
    \/ \E b \in SetValues : TopLevel /\ setNewNextAnswer(b)
          /\ UNCHANGED dwVars
    \/ \E a \in {QtYes, QtNo, QtCancel, QtDiscard} : qtReturns(a)
          /\ UNCHANGED dwVars

Spec == Init /\ [][Next]_vars

(* ------------------------ vocabulary of the claims --------------------- *)

\* last is the call of a confirm entry point: it entered exec() or it
\* returned the scripted answer.
IsCall(l) == l.op = "exec" \/ (l.op = "return" /\ l.path = "override")

IsOverrideReturn(l) == l.op = "return" /\ l.path = "override"

\* The entry points whose buttons are QMessageBox::StandardButtons.
IsStd(l) == build = BuildDual /\ l.fn # "newQuestion"

\* k is one of the buttons the call l asked for.
Requested(k, l) ==
    IF IsStd(l) THEN k \in l.buttons
    ELSE k # NoButton /\ TestBit(k, l.buttons)

SetsOn(slot) == {i \in DOMAIN setLog : setLog[i].slot = slot}

LatestSet(slot) == CHOOSE i \in SetsOn(slot) : \A j \in SetsOn(slot) : j <= i

ConfirmFns == {"critical", "information", "question", "warning"}

\* C1: consume-once.  The first confirm call after setNextAnswer(k), k a
\* member of the requested set, returns k, constructs no dialog and leaves
\* the slot empty; a further confirm call without a new set call takes the
\* dialog path.
C1_ConsumeOnce ==
    IsCall(last) =>
        LET s == SlotOf(last.fn)
        IN /\ (/\ sinceSet[s] = 1
               /\ SetsOn(s) # {}
               /\ setLog[LatestSet(s)].arg # NoneOf(s)
               /\ Requested(setLog[LatestSet(s)].arg, last))
              => /\ last.path = "override"
                 /\ last.val = setLog[LatestSet(s)].arg
                 /\ ~last.constructed
                 /\ SlotValue(s) = NoneOf(s)
           /\ sinceSet[s] = 2 => last.path = "dialog" /\ last.constructed

C1_Witness ==
    /\ last.op = "exec"
    /\ last.combined = <<Delete, Cancel>>
    /\ sinceSet[SlotOf(last.fn)] = 2
    /\ \E i \in SetsOn(SlotOf(last.fn)) :
          setLog[i].arg = Cancel /\ setLog[i].supplied = 1

\* C2: last write wins.  A scripted answer that was overwritten before any
\* confirm call is never returned; an answer that is returned comes from the
\* latest set call on the slot.
C2_LastWriteWins ==
    /\ \A i \in DOMAIN setLog : setLog[i].dead => setLog[i].supplied = 0
    /\ IsOverrideReturn(last) =>
          /\ SetsOn(SlotOf(last.fn)) # {}
          /\ last.src = LatestSet(SlotOf(last.fn))
          /\ last.val = setLog[LatestSet(SlotOf(last.fn))].arg

C2_Witness ==
    /\ IsOverrideReturn(last)
    /\ Len(setLog) = 2
    /\ setLog[1].slot = setLog[2].slot
    /\ setLog[1].dead
    /\ setLog[1].arg # NoneOf(setLog[1].slot)
    /\ setLog[1].arg # last.val
    /\ last.src = 2

\* C3: setNextAnswer(a), confirm, setNextAnswer(b), confirm returns a, then
\* b; no set call supplies the return value of two confirm calls.
C3_OneAnswerPerSet ==
    /\ \A i \in DOMAIN setLog : setLog[i].supplied <= 1
    /\ IsOverrideReturn(last) =>
          /\ last.src \in DOMAIN setLog
          /\ setLog[last.src].supplied = 1
          /\ last.val = setLog[last.src].arg
          /\ \A i \in SetsOn(SlotOf(last.fn)) \ {last.src} :
                (~setLog[i].dead /\ setLog[i].arg # NoneOf(SlotOf(last.fn))) =>
                    i < last.src /\ setLog[i].supplied = 1

C3_Witness ==
    /\ IsOverrideReturn(last)
    /\ Len(setLog) = 2
    /\ setLog[1].slot = setLog[2].slot
    /\ setLog[1].supplied = 1 /\ setLog[2].supplied = 1
    /\ setLog[1].arg # setLog[2].arg
    /\ last.src = 2

\* C4: the override check comes first and is unconditional.  A confirm call
\* made while an answer is pending returns it without a dialog, whatever the
\* requested set and the default button are.
C4_OverrideUnconditional ==
    [][ LET s == SlotOf(last'.fn)
        IN (IsCall(last') /\ SlotValue(s) # NoneOf(s))
           => /\ last'.path = "override"
              /\ last'.val = SlotValue(s)
              /\ ~last'.constructed
              /\ boxes' = boxes /\ m_buttonMap' = m_buttonMap ]_vars

C4_Witness ==
    /\ IsOverrideReturn(last)
    /\ ~IsStd(last)
    /\ last.val = NoToAll
    /\ last.combined = <<Delete, Cancel>>
    /\ last.defaultButton = Cancel

\* C5: critical, information, question and warning share the slot
\* m_nextAnswer.  Whichever of them is called first after setNextAnswer(k)
\* returns k and clears the slot; each of them takes the dialog path when the
\* slot is empty.
C5_SharedSlot ==
    [][ (IsCall(last') /\ last'.fn \in ConfirmFns)
        => IF m_nextAnswer # NoneOf("m_nextAnswer")
           THEN /\ last'.path = "override"
                /\ last'.val = m_nextAnswer
                /\ m_nextAnswer' = NoneOf("m_nextAnswer")
           ELSE /\ last'.path = "dialog"
                /\ m_nextAnswer' = NoneOf("m_nextAnswer") ]_vars

C5_Witness ==
    /\ last.op = "exec"
    /\ last.fn = "critical"
    /\ sinceSet["m_nextAnswer"] = 2
    /\ \E i \in SetsOn("m_nextAnswer") :
          setLog[i].supplied = 1 /\ setLog[i].arg # NoneOf("m_nextAnswer")

\* C6: the override slots are empty at start and change only in a set call
\* (to its argument) and on the override path of a confirm call (to empty);
\* the dialog path, from construction to the translated click, leaves them
\* unchanged.
C6_SlotFrame ==
    /\ m_nextAnswer = NoneOf("m_nextAnswer")
    /\ m_newNextAnswer = NoButton
    /\ [][ /\ m_nextAnswer' # m_nextAnswer =>
                \/ last'.op = "set" /\ last'.fn = "setNextAnswer"
                                    /\ m_nextAnswer' = last'.val
                \/ IsOverrideReturn(last') /\ last'.fn \in ConfirmFns
                                           /\ m_nextAnswer' = NoneOf("m_nextAnswer")
           /\ m_newNextAnswer' # m_newNextAnswer =>
                \/ last'.op = "set" /\ last'.fn = "setNewNextAnswer"
                                    /\ m_newNextAnswer' = last'.val
                \/ IsOverrideReturn(last') /\ last'.fn = "newQuestion"
                                           /\ m_newNextAnswer' = NoButton
           /\ last'.path = "dialog" =>
                UNCHANGED <<m_nextAnswer, m_newNextAnswer>> ]_vars

C6_Witness ==
    /\ last.op = "return"
    /\ last.path = "dialog"
    /\ last.fn = "newQuestion"
    /\ m_nextAnswer = QtYes

\* The kinds of the loop range [First..Last] of the linked revision.
RangeKinds == {k \in SwitchCases(BuildSingle) : First <= k /\ k <= Last(build)}

\* The dialogs built by messageBox or newQuestion.
OwnBoxes == {p \in DOMAIN boxes : ~boxes[p].qt}

\* C7: with no answer scripted, confirm returns the kind recorded in the
\* button map for the button the operator activated, a member of the
\* requested set ({Delete, Cancel}, operator activates Delete: Delete).
C7_ClickTranslated ==
    (/\ last.op = "return" /\ last.path = "dialog" /\ ~IsStd(last)
     /\ last.clicked # NoButton)
    => /\ last.val = last.clicked
       /\ Requested(last.val, last)

\* C8: buttons are created in ascending order of ResponseKind, however the
\* caller combined the values.
C8_AscendingOrder ==
    \A p \in OwnBoxes :
        \A i, j \in DOMAIN boxes[p].created :
            i < j => boxes[p].created[i] < boxes[p].created[j]

C8_Witness ==
    \E p \in OwnBoxes :
        /\ boxes[p].combined = <<Cancel, Ok>>
        /\ boxes[p].created = <<Ok, Cancel>>

\* C9: when the dialog has been built, it has exactly one button, and the
\* map one entry, for each kind of [First..Last] whose bit is set in the
\* requested set, and none for any other bit.
C9_OneButtonPerKind ==
    (last.op = "exec" /\ ~IsStd(last)) =>
        LET pos == Len(boxes)
            box == boxes[pos]
            wanted == {k \in RangeKinds : TestBit(k, box.buttons)}
            mine == {h \in DOMAIN m_buttonMap : h[1] = pos}
        IN /\ {box.created[i] : i \in DOMAIN box.created} = wanted
           /\ Len(box.created) = Cardinality(wanted)
           /\ mine = OwnButtons(pos, box.created)
           /\ \A h \in mine : m_buttonMap[h] = box.created[h[2]]
           /\ pos = 1 => DOMAIN m_buttonMap = mine

C9_Witness ==
    /\ last.op = "exec"
    /\ last.combined = <<Bit(25), Delete, Bit(0)>>
    /\ boxes[Len(boxes)].created = <<Delete>>
    /\ DOMAIN m_buttonMap = {Handle(Len(boxes), 1)}

\* C10: a default button that is a member of the requested set marks the
\* button of that kind, and no other, as the default of the dialog, for
\* every entry point that builds a dialog.
C10_DefaultMarked ==
    \A p \in OwnBoxes :
        (boxes[p].defaultButton # NoButton
            /\ boxes[p].defaultButton \in RangeKinds
            /\ TestBit(boxes[p].defaultButton, boxes[p].buttons))
        => \E i \in DOMAIN boxes[p].created :
              /\ boxes[p].created[i] = boxes[p].defaultButton
              /\ boxes[p].def = {Handle(p, i)}


\* defaultButton of the call or dialog r is a kind the dialog has a button for.
DefaultIsMember(r) ==
    /\ r.defaultButton # NoButton
    /\ r.defaultButton \in RangeKinds
    /\ TestBit(r.defaultButton, r.buttons)

\* C11: with defaultButton omitted or not a member of the requested set the
\* call does not fail: no button is marked default, the dialog is shown and
\* the operator's choice is returned.
C11_NoDefaultStillAnswers ==
    /\ \A p \in OwnBoxes : ~DefaultIsMember(boxes[p]) => boxes[p].def = {}
    /\ (/\ last.op = "return" /\ last.path = "dialog" /\ ~IsStd(last)
        /\ ~DefaultIsMember(last) /\ last.clicked # NoButton)
       => /\ last.constructed
          /\ last.val = last.clicked

\* C12: the button map is transient.  It has no entry whenever no call of
\* messageBox or newQuestion is in progress, in particular after the return
\* that leaves no dialog open.
C12_MapTransient ==
    /\ OwnBoxes = {} => m_buttonMap = EmptyMap
    /\ (last.op = "return" /\ boxes = <<>>) => DOMAIN m_buttonMap = {}

C12_Witness ==
    /\ last.op = "return" /\ last.path = "dialog" /\ ~IsStd(last)
    /\ last.clicked = Delete
    /\ boxes = <<>>
    /\ m_buttonMap = EmptyMap

\* C13: confirm with an empty requested set and no answer scripted fails
\* fast: no dialog is shown for it and no ResponseKind is returned.
C13_EmptySetRejected ==
    /\ \A p \in OwnBoxes : boxes[p].buttons # 0
    /\ (last.path = "dialog" /\ ~IsStd(last)) => last.buttons # 0

\* C14: in the two-slot revision the slots are independent.  setNextAnswer
\* leaves m_newNextAnswer alone and setNewNextAnswer leaves m_nextAnswer
\* alone; critical, information, question and warning read and clear only
\* m_nextAnswer, newQuestion reads and clears only m_newNextAnswer.
C14_SlotsIndependent ==
    [][ build = BuildDual =>
        /\ (last'.op = "set" /\ last'.fn = "setNextAnswer") =>
              m_nextAnswer' = last'.val /\ UNCHANGED m_newNextAnswer
        /\ (last'.op = "set" /\ last'.fn = "setNewNextAnswer") =>
              m_newNextAnswer' = last'.val /\ UNCHANGED m_nextAnswer
        /\ (IsCall(last') /\ last'.fn \in ConfirmFns) =>
              /\ UNCHANGED m_newNextAnswer
              /\ m_nextAnswer' = QtNoButton
              /\ IF m_nextAnswer # QtNoButton
                 THEN last'.path = "override" /\ last'.val = m_nextAnswer
                 ELSE last'.path = "dialog"
        /\ (IsCall(last') /\ last'.fn = "newQuestion") =>
              /\ UNCHANGED m_nextAnswer
              /\ m_newNextAnswer' = NoButton
              /\ IF m_newNextAnswer # NoButton
                 THEN last'.path = "override" /\ last'.val = m_newNextAnswer
                 ELSE last'.path = "dialog" ]_vars

C14_Witness ==
    /\ build = BuildDual
    /\ IsOverrideReturn(last)
    /\ last.fn = "newQuestion"
    /\ last.val = NoToAll
    /\ m_nextAnswer = QtYes

\* C17: a confirm call that runs and completes while the dialog of an
\* earlier call is open leaves the mappings of the earlier call in the
\* shared map, so the earlier call returns the kind of the button the
\* operator activates in its dialog.
C17_MappingsSurviveNesting ==
    /\ \A p \in OwnBoxes : \A i \in DOMAIN boxes[p].created :
          /\ Handle(p, i) \in DOMAIN m_buttonMap
          /\ m_buttonMap[Handle(p, i)] = boxes[p].created[i]
    /\ (last.op = "return" /\ last.path = "dialog" /\ ~IsStd(last)
            /\ last.clicked # NoButton)
       => last.val = last.clicked

(* ===================== DatabaseWidget::deleteEntries ==================== *)

\* DatabaseWidget is written against the part_001 revision: deleteEntries
\* calls newQuestion and setNewNextAnswer, the other handlers hand
\* QMessageBox::StandardButtons to MessageBox::question.

\* Lines 484-487.
isLocked == mode = "LockedMode"

\* No DatabaseWidget handler is running.
Idle == dwPc \in {"idle", "done"} /\ reloadStack = <<>>

\* selectedEntries.first()
FirstOf(sel) == CHOOSE e \in sel : \A f \in sel : e <= f

\* A dialog-path call entered exec(); an override-path call has returned.
Returned(l) == l.op = "return"

\* Lines 681-708 and 722-740: from the entry of deleteEntries to the return
\* on an empty selection, to the first newQuestion, or to question.exec()
\* of the recycle-bin prompt.
deleteEntries(sel) ==
    /\ Idle
    /\ boxes = <<>>
    /\ Len(setLog) < MaxSets      \* room in setLog for the call of line 716
    /\ sel \subseteq {e \in Entries : entryState[e] # "deleted"}
    /\ selected' = sel
    /\ setAnswer' = NoButton
    /\ question_clickedButton' = "none"
    /\ UNCHANGED <<debugBuild, urlVars, watchVars, cancelled, ret, lockVars, saveVars,
                   entryState, recycleBinEnabled, exitCode>>
    /\ IF sel = {}
       THEN /\ dwPc' = (IF debugBuild THEN "aborted" ELSE "done")
            /\ answer' = NoButton
            /\ UNCHANGED <<inRecycleBin, mbVars>>
       ELSE /\ inRecycleBin' = (entryState[FirstOf(sel)] = "bin")
            /\ IF inRecycleBin' \/ ~recycleBinEnabled
               THEN /\ newQuestion(<<Delete, Cancel>>, NoButton)
                    /\ IF Returned(last')
                       THEN answer' = last'.val /\ dwPc' = "answered"
                       ELSE answer' = NoButton /\ dwPc' = "asking"
               ELSE /\ dwPc' = "recycle_exec"
                    /\ answer' = NoButton
                    /\ UNCHANGED mbVars

\* exec() of a newQuestion dialog of deleteEntries returns: line 708 assigns
\* answer, lines 718-721 assign setAnswer and test it.
deleteEntries_execReturns(clickedButton) ==
    /\ dwPc \in {"asking", "asking2"}
    /\ reloadStack = <<>>
    /\ execReturns(clickedButton)
    /\ UNCHANGED <<debugBuild, urlVars, watchVars, cancelled, ret, lockVars, saveVars,
                   entryState, recycleBinEnabled, selected, inRecycleBin,
                   question_clickedButton>>
    /\ IF dwPc = "asking"
       THEN /\ answer' = last'.val
            /\ dwPc' = "answered"
            /\ UNCHANGED <<setAnswer, exitCode>>
       ELSE /\ setAnswer' = last'.val
            /\ exitCode' = (IF setAnswer' # NoToAll THEN 22 ELSE exitCode)
            /\ dwPc' = "done"
            /\ UNCHANGED answer

\* Variant of lines 710-716 without the setNewNextAnswer call.
deleteEntries_setNewNextAnswer_Omitted ==
    /\ dwPc = "answered"
    /\ entryState' = [e \in Entries |->
                        IF answer = Delete /\ e \in selected
                        THEN "deleted" ELSE entryState[e]]
    /\ UNCHANGED mbVars
    /\ dwPc' = "set"
    /\ UNCHANGED <<debugBuild, urlVars, watchVars, cancelled, ret, lockVars, saveVars,
                   recycleBinEnabled, selected, inRecycleBin, answer, setAnswer,
                   exitCode, question_clickedButton>>

\* Lines 710-716: delete the entries if the answer was Delete, then
\* MessageBox::setNewNextAnswer(MessageBox::NoToAll).
deleteEntries_setNewNextAnswer ==
    /\ dwPc = "answered"
    /\ entryState' = [e \in Entries |->
                        IF answer = Delete /\ e \in selected
                        THEN "deleted" ELSE entryState[e]]
    /\ setNewNextAnswer(NoToAll)
    /\ dwPc' = "set"
    /\ UNCHANGED <<debugBuild, urlVars, watchVars, cancelled, ret, lockVars, saveVars,
                   recycleBinEnabled, selected, inRecycleBin, answer, setAnswer,
                   exitCode, question_clickedButton>>

\* Lines 717-721: the second newQuestion and the test of its answer.
deleteEntries_setAnswer ==
    /\ dwPc = "set"
    /\ newQuestion(<<Delete, Cancel>>, NoButton)
    /\ UNCHANGED <<debugBuild, urlVars, watchVars, cancelled, ret, lockVars, saveVars,
                   entryState, recycleBinEnabled, selected, inRecycleBin, answer,
                   question_clickedButton>>
    /\ IF Returned(last')
       THEN /\ setAnswer' = last'.val
            /\ exitCode' = (IF setAnswer' # NoToAll THEN 22 ELSE exitCode)
            /\ dwPc' = "done"
       ELSE /\ dwPc' = "asking2"
            /\ UNCHANGED <<setAnswer, exitCode>>

\* Variant of lines 740-748 that moves the entries whatever was clicked.
deleteEntries_recycle_IgnoresCancel(clickedCancel) ==
    /\ dwPc = "recycle_exec"
    /\ question_clickedButton' = (IF clickedCancel THEN "Cancel" ELSE "Move")
    /\ entryState' = [e \in Entries |-> IF e \in selected THEN "bin" ELSE entryState[e]]
    /\ dwPc' = "done"
    /\ UNCHANGED <<debugBuild, urlVars, watchVars, cancelled, ret, lockVars, saveVars,
                   recycleBinEnabled, selected, inRecycleBin, answer, setAnswer,
                   exitCode, mbVars>>

\* Lines 740-748: question.exec() of the recycle-bin prompt returns; Escape
\* and the close button count as Cancel, the dialog's escape button.
deleteEntries_recycle(clickedCancel) ==
    /\ dwPc = "recycle_exec"
    /\ question_clickedButton' = (IF clickedCancel THEN "Cancel" ELSE "Move")
    /\ entryState' = [e \in Entries |->
                        IF ~clickedCancel /\ e \in selected
                        THEN "bin" ELSE entryState[e]]
    /\ dwPc' = "done"
    /\ UNCHANGED <<debugBuild, urlVars, watchVars, cancelled, ret, lockVars, saveVars,
                   recycleBinEnabled, selected, inRecycleBin, answer, setAnswer,
                   exitCode, mbVars>>

\* A test scripts an answer between two operations of the widget.
ScriptsAnswer ==
    /\ Idle
    /\ boxes = <<>>
    /\ Len(setLog) + 1 < MaxSets
    /\ dwPc' = "idle"
    /\ UNCHANGED <<debugBuild, urlVars, watchVars, cancelled, ret, lockVars, saveVars,
                   delVars>>

\* The reloadDatabaseFile execution that runs or whose dialog is on top.
Top == reloadStack[Len(reloadStack)]

\* reloadDatabaseFile executions whose dialog is open.
ReloadDialogs == {"asking", "merge_asking"}

\* The event loop runs: between two handlers and inside exec() of the dialog
\* on top.
EventLoop ==
    IF reloadStack = <<>>
    THEN dwPc \in {"idle", "done"} \/ boxes # <<>>
    ELSE Top.pc \in ReloadDialogs

\* What the widget does not touch while it serves its file watcher.
handlerVars == <<debugBuild, urlVars, dwPc, ret, delVars, mode, AutoSaveOnExit, result,
                 viewVars, databaseLocked, savedInLock,
                 readOnly, hasPath, UseAtomicSaves, firstAttempt, attempt, ok, choice,
                 saveAsDepth, writes, errorShown, AutoReloadOnChange>>

\* As onWatchedFileChanged, but every event restarts the timer.
onWatchedFileChanged_Restarts(gone) ==
    /\ EventLoop
    /\ watching
    /\ watching' = ~gone
    /\ IF m_ignoreAutoReload \/ arms >= MaxArms
       THEN UNCHANGED <<m_fileWatchTimer, arms>>
       ELSE /\ m_fileWatchTimer' = TRUE
            /\ arms' = arms + 1
    /\ UNCHANGED <<handlerVars, m_db, modified, m_ignoreAutoReload,
                   m_fileWatchUnblockTimer, reloadStack, replacements, reloadCalls,
                   cancelled, mbVars>>

\* Lines 1504-1513: the file watcher reports a change of the database file;
\* gone: the file was replaced and the watcher has dropped its path.
onWatchedFileChanged(gone) ==
    /\ EventLoop
    /\ watching
    /\ watching' = ~gone
    /\ IF m_ignoreAutoReload \/ m_fileWatchTimer \/ arms >= MaxArms
       THEN UNCHANGED <<m_fileWatchTimer, arms>>
       ELSE /\ m_fileWatchTimer' = TRUE
            /\ arms' = arms + 1
    /\ UNCHANGED <<handlerVars, m_db, modified, m_ignoreAutoReload,
                   m_fileWatchUnblockTimer, reloadStack, replacements, reloadCalls,
                   cancelled, mbVars>>

\* A reloadDatabaseFile execution at its entry.
Activation(p, r) ==
    [pc |-> p, result |-> r, opened |-> FALSE, mergeResult |-> QtNoButton]

\* reloadStack with the top execution at p, its locals result, opened (what
\* db->open returned) and the result of "Merge Request" set.
SetTop(p, r, o, m) ==
    [reloadStack EXCEPT ![Len(reloadStack)] =
        [pc |-> p, result |-> r, opened |-> o, mergeResult |-> m]]

\* reloadStack without its top execution.
Pop == SubSeq(reloadStack, 1, Len(reloadStack) - 1)

\* Lines 1515-1526: m_fileWatchTimer fires; reloadDatabaseFile returns on a
\* locked widget, asks "File has changed", or goes on to open the file.
reloadDatabaseFile ==
    /\ EventLoop
    /\ m_fileWatchTimer
    /\ m_fileWatchTimer' = FALSE
    /\ reloadCalls' = reloadCalls + 1
    /\ IF isLocked
       THEN UNCHANGED <<reloadStack, mbVars>>
       ELSE IF ~AutoReloadOnChange
       THEN /\ questionStd({QtYes, QtNo}, QtNoButton)
            /\ reloadStack' = Append(reloadStack,
                                  IF Returned(last')
                                  THEN Activation("answered", last'.val)
                                  ELSE Activation("asking", QtNoButton))
       ELSE /\ reloadStack' = Append(reloadStack, Activation("open", QtNoButton))
            /\ UNCHANGED mbVars
    /\ UNCHANGED <<handlerVars, m_db, modified, m_ignoreAutoReload,
                   m_fileWatchUnblockTimer, watching, replacements, arms, cancelled>>

\* The dialog of the top reloadDatabaseFile execution closes.
reload_questionReturns(standardButton) ==
    /\ reloadStack # <<>>
    /\ Top.pc \in ReloadDialogs
    /\ qtReturns(standardButton)
    /\ reloadStack' = (IF Top.pc = "asking"
                       THEN SetTop("answered", last'.val, Top.opened, Top.mergeResult)
                       ELSE SetTop("merge_answered", Top.result, Top.opened, last'.val))
    /\ UNCHANGED <<handlerVars, m_db, modified, m_ignoreAutoReload, m_fileWatchTimer,
                   m_fileWatchUnblockTimer, watching, replacements, arms, reloadCalls,
                   cancelled>>

\* As reload_answered, but a declined reload returns without addPath.
reload_answered_NoRewatch ==
    /\ reloadStack # <<>>
    /\ Top.pc = "answered"
    /\ IF Top.result = QtNo
       THEN /\ modified' = TRUE
            /\ reloadStack' = Pop
            /\ UNCHANGED watching
       ELSE /\ reloadStack' = SetTop("open", Top.result, Top.opened, Top.mergeResult)
            /\ UNCHANGED <<modified, watching>>
    /\ UNCHANGED <<handlerVars, m_db, m_ignoreAutoReload, m_fileWatchTimer,
                   m_fileWatchUnblockTimer, replacements, arms, reloadCalls, cancelled,
                   mbVars>>

\* Lines 1528-1535: the answer to "File has changed".
reload_answered ==
    /\ reloadStack # <<>>
    /\ Top.pc = "answered"
    /\ IF Top.result = QtNo
       THEN /\ modified' = TRUE
            /\ watching' = TRUE
            /\ reloadStack' = Pop
       ELSE /\ reloadStack' = SetTop("open", Top.result, Top.opened, Top.mergeResult)
            /\ UNCHANGED <<modified, watching>>
    /\ UNCHANGED <<handlerVars, m_db, m_ignoreAutoReload, m_fileWatchTimer,
                   m_fileWatchUnblockTimer, replacements, arms, reloadCalls, cancelled,
                   mbVars>>

\* Lines 1537-1539: db->open on the file of the database.
reload_open(opened) ==
    /\ reloadStack # <<>>
    /\ Top.pc = "open"
    /\ reloadStack' = SetTop("opened", Top.result, opened, Top.mergeResult)
    /\ UNCHANGED <<handlerVars, m_db, modified, m_ignoreAutoReload, m_fileWatchTimer,
                   m_fileWatchUnblockTimer, watching, replacements, arms, reloadCalls,
                   cancelled, mbVars>>

\* As reload_opened, but a file that cannot be opened replaces the database.
reload_opened_ReplacesAnyway ==
    /\ reloadStack # <<>>
    /\ Top.pc = "opened"
    /\ IF Top.opened /\ modified
       THEN /\ questionStd({QtYes, QtNo}, QtNoButton)
            /\ reloadStack' = (IF Returned(last')
                               THEN SetTop("merge_answered", Top.result, TRUE, last'.val)
                               ELSE SetTop("merge_asking", Top.result, TRUE, QtNoButton))
            /\ UNCHANGED <<modified, watching, replacements, m_db>>
       ELSE /\ modified' = FALSE
            /\ replacements' = replacements + 1
            /\ m_db' = 1 - m_db
            /\ watching' = TRUE
            /\ reloadStack' = Pop
            /\ UNCHANGED mbVars
    /\ UNCHANGED <<handlerVars, m_ignoreAutoReload, m_fileWatchTimer,
                   m_fileWatchUnblockTimer, arms, reloadCalls, cancelled>>

\* Lines 1539-1547 and 1566-1579: the outcome of db->open; an opened file
\* replaces an unmodified database at once, a modified one after "Merge
\* Request"; a file that could not be opened marks the database modified.
reload_opened ==
    /\ reloadStack # <<>>
    /\ Top.pc = "opened"
    /\ IF Top.opened /\ modified
       THEN /\ questionStd({QtYes, QtNo}, QtNoButton)
            /\ reloadStack' = (IF Returned(last')
                               THEN SetTop("merge_answered", Top.result, TRUE, last'.val)
                               ELSE SetTop("merge_asking", Top.result, TRUE, QtNoButton))
            /\ UNCHANGED <<modified, watching, replacements, m_db>>
       ELSE /\ modified' = ~Top.opened
            /\ replacements' = replacements + (IF Top.opened THEN 1 ELSE 0)
            /\ m_db' = (IF Top.opened THEN 1 - m_db ELSE m_db)
            /\ watching' = TRUE
            /\ reloadStack' = Pop
            /\ UNCHANGED mbVars
    /\ UNCHANGED <<handlerVars, m_ignoreAutoReload, m_fileWatchTimer,
                   m_fileWatchUnblockTimer, arms, reloadCalls, cancelled>>

\* Lines 1547-1579: the answer to "Merge Request"; Yes merges the unsaved
\* changes into the database read from the file, which replaces m_db.
reload_merge_answered ==
    /\ reloadStack # <<>>
    /\ Top.pc = "merge_answered"
    /\ modified' = (Top.mergeResult = QtYes)
    /\ replacements' = replacements + 1
    /\ m_db' = 1 - m_db
    /\ watching' = TRUE
    /\ reloadStack' = Pop
    /\ UNCHANGED <<handlerVars, m_ignoreAutoReload, m_fileWatchTimer,
                   m_fileWatchUnblockTimer, arms, reloadCalls, cancelled, mbVars>>

\* The database file changes while a dialog of the running handler is open.
FileChangesInDialog ==
    /\ boxes # <<>>
    /\ dwPc \notin {"idle", "done"}
    /\ arms < MaxDialogArms

\* MessageBox of part_001 with nothing scripted and no dialog open.
MbInitDual ==
    /\ build = BuildDual
    /\ m_nextAnswer = QtNoButton
    /\ m_newNextAnswer = NoButton
    /\ m_buttonMap = EmptyMap
    /\ boxes = <<>>
    /\ last = NoCall
    /\ setLog = <<>>
    /\ slotSrc = [s \in Slots |-> 0]
    /\ sinceSet = [s \in Slots |-> 0]

InitDelete ==
    /\ MbInitDual
    /\ debugBuild \in BOOLEAN
    /\ dwPc = "idle"
    /\ ret = "none"
    /\ mode = "ViewMode"
    /\ modified \in BOOLEAN
    /\ AutoSaveOnExit = FALSE
    /\ result = QtNoButton
    /\ ViewInit
    /\ SaveInit
    /\ entryState = [e \in Entries |-> "group"]
    /\ recycleBinEnabled \in BOOLEAN
    /\ selected = {}
    /\ inRecycleBin = FALSE
    /\ answer = NoButton
    /\ setAnswer = NoButton
    /\ exitCode = 0
    /\ question_clickedButton = "none"
    /\ AutoReloadOnChange = FALSE
    /\ WatchInit
    /\ cancelled = 0
    /\ UrlInit

NextDelete ==
    \/ \E b \in SetValues \cup {Delete} : ScriptsAnswer /\ setNewNextAnswer(b)
    \/ \E b \in QtSetValues : ScriptsAnswer /\ setNextAnswerStd(b)
    \/ \E sel \in SUBSET Entries : deleteEntries(sel)
    \/ \E h \in {Handle(Len(boxes), i) : i \in 1..2} : deleteEntries_execReturns(h)
    \/ deleteEntries_setNewNextAnswer
    \/ deleteEntries_setAnswer
    \/ \E c \in BOOLEAN : deleteEntries_recycle(c)
    \/ \E gone \in BOOLEAN : FileChangesInDialog /\ onWatchedFileChanged(gone)
    \/ reloadDatabaseFile
    \/ \E b \in {QtYes, QtNo} : reload_questionReturns(b)
    \/ reload_answered
    \/ \E opened \in BOOLEAN : reload_open(opened)
    \/ reload_opened
    \/ reload_merge_answered

SpecDelete == InitDelete /\ [][NextDelete]_vars

\* The permanent-delete branch of deleteEntries was taken.
PermanentBranch == selected # {} /\ (inRecycleBin \/ ~recycleBinEnabled)

\* C15: in the permanent-delete branch the second confirmation of
\* deleteEntries never shows a dialog and always returns NoToAll, so
\* QApplication::exit(22) is not reached; whatever the slots held on entry,
\* m_newNextAnswer is NoButton when deleteEntries returns.
C15_SecondConfirmationDead ==
    /\ [](dwPc # "asking2" /\ exitCode = 0)
    /\ [][(dwPc # "done" /\ dwPc' = "done" /\ PermanentBranch') =>
             /\ setAnswer' = NoToAll
             /\ m_newNextAnswer' = NoButton
             /\ IsOverrideReturn(last') /\ last'.fn = "newQuestion"
             /\ ~last'.constructed]_vars

C15_Witness ==
    /\ dwPc = "done"
    /\ PermanentBranch
    /\ answer = Cancel
    /\ setAnswer = NoToAll
    /\ Len(setLog) = 2
    /\ setLog[1].arg = Cancel /\ setLog[1].supplied = 1

(* ========================= DatabaseWidget::lock ========================= *)

\* Uuids of the groups and of the entry the views can show.
GroupUuids == {"root", "group"}
EntryUuids == {"entry"}

\* Lines 1441-1460 and 1185-1190: remember the view, show the open-database
\* widget (updateFilePath watches the file again), replace m_db by an empty
\* database for the same file, emit databaseLocked and return true.
lock_locks ==
    /\ m_groupBeforeLock' = (IF currentGroup # NullUuid THEN currentGroup ELSE "root")
    /\ m_entryBeforeLock' =
          (IF currentEntry # NullUuid THEN currentEntry ELSE m_entryBeforeLock)
    /\ currentGroup' = NullUuid
    /\ currentEntry' = NullUuid
    /\ watching' = hasPath
    /\ mode' = "LockedMode"
    /\ m_db' = 1 - m_db
    /\ modified' = FALSE
    /\ databaseLocked' = TRUE
    /\ ret' = TRUE
    /\ dwPc' = "done"

\* What lock leaves alone on every path.
lockKeeps == <<debugBuild, urlVars, delVars, saveVars, AutoSaveOnExit, cancelled,
               AutoReloadOnChange, reloadStack, replacements, arms, reloadCalls>>

\* What lock changes only when it locks.
lockSets == <<mode, modified, viewVars, m_db, watching, databaseLocked>>

\* Lines 1402-1417: from the entry of lock to the return for a locked
\* widget or to the "Lock Database?" question.
lock ==
    /\ Idle
    /\ boxes = <<>>
    /\ databaseLocked' = FALSE
    /\ savedInLock' = FALSE
    /\ UNCHANGED <<lockKeeps, mode, modified, viewVars, m_db, watching>>
    /\ IF isLocked
       THEN /\ ret' = TRUE
            /\ dwPc' = "done"
            /\ UNCHANGED <<result, mbVars>>
       ELSE /\ ret' = "none"
            /\ IF mode = "EditMode"
               THEN /\ questionStd({QtDiscard, QtCancel}, QtCancel)
                    /\ IF Returned(last')
                       THEN result' = last'.val /\ dwPc' = "lock_answered"
                       ELSE result' = QtNoButton /\ dwPc' = "lock_asking"
               ELSE /\ dwPc' = "lock_modified"
                    /\ UNCHANGED <<result, mbVars>>

\* QMessageBox::question of "Lock Database?" or of "Save changes?" returns.
lock_questionReturns(standardButton) ==
    /\ dwPc \in {"lock_asking", "lock_asking_save"}
    /\ reloadStack = <<>>
    /\ Len(boxes) = 1
    /\ qtReturns(standardButton)
    /\ result' = last'.val
    /\ dwPc' = (IF dwPc = "lock_asking" THEN "lock_answered" ELSE "lock_answered_save")
    /\ UNCHANGED <<lockKeeps, lockSets, ret, savedInLock>>

\* Lines 1414-1416: if (result == QMessageBox::Cancel) return false;
lock_answered ==
    /\ dwPc = "lock_answered"
    /\ IF result = QtCancel
       THEN ret' = FALSE /\ dwPc' = "done"
       ELSE ret' = ret /\ dwPc' = "lock_modified"
    /\ UNCHANGED <<lockKeeps, lockSets, result, savedInLock, mbVars>>

\* Lines 1419-1432: the modified database is saved, or "Save changes?" is
\* asked; saved stands for the outcome of m_db->save.
lock_modified(saved) ==
    /\ dwPc = "lock_modified"
    /\ UNCHANGED lockKeeps
    /\ IF ~modified
       THEN lock_locks /\ UNCHANGED <<result, savedInLock, mbVars>>
       ELSE IF AutoSaveOnExit
       THEN /\ UNCHANGED <<result, mbVars>>
            /\ savedInLock' = saved
            /\ IF ~saved
               THEN ret' = FALSE /\ dwPc' = "done" /\ UNCHANGED lockSets
               ELSE lock_locks
       ELSE IF ~isLocked
       THEN /\ questionStd({QtYes, QtDiscard, QtCancel}, QtYes)
            /\ IF Returned(last')
               THEN result' = last'.val /\ dwPc' = "lock_answered_save"
               ELSE result' = result /\ dwPc' = "lock_asking_save"
            /\ UNCHANGED <<ret, lockSets, savedInLock>>
       ELSE lock_locks /\ UNCHANGED <<result, savedInLock, mbVars>>

\* As lock_answered_save, but a cancelled "Save changes?" has already
\* remembered the view.
lock_answered_save_RemembersEarly(saved) ==
    /\ dwPc = "lock_answered_save"
    /\ UNCHANGED <<lockKeeps, result, mbVars>>
    /\ IF result = QtYes
       THEN /\ savedInLock' = saved
            /\ IF saved
               THEN lock_locks
               ELSE ret' = FALSE /\ dwPc' = "done" /\ UNCHANGED lockSets
       ELSE /\ UNCHANGED savedInLock
            /\ IF result = QtCancel
               THEN /\ ret' = FALSE
                    /\ dwPc' = "done"
                    /\ m_groupBeforeLock' = "root"
                    /\ UNCHANGED <<mode, modified, currentGroup, currentEntry,
                                   m_entryBeforeLock, m_db, watching, databaseLocked>>
               ELSE lock_locks

\* Lines 1433-1437: the answer to "Save changes?".
lock_answered_save(saved) ==
    /\ dwPc = "lock_answered_save"
    /\ UNCHANGED <<lockKeeps, result, mbVars>>
    /\ IF result = QtYes
       THEN /\ savedInLock' = saved
            /\ IF saved
               THEN lock_locks
               ELSE ret' = FALSE /\ dwPc' = "done" /\ UNCHANGED lockSets
       ELSE /\ UNCHANGED savedInLock
            /\ IF result = QtCancel
               THEN ret' = FALSE /\ dwPc' = "done" /\ UNCHANGED lockSets
               ELSE lock_locks

\* The operator opens or leaves the entry editor or edits the database.
Operator(m, edits) ==
    /\ Idle
    /\ boxes = <<>>
    /\ ~isLocked
    /\ m # mode \/ edits
    /\ mode' = m
    /\ modified' = (modified \/ edits)
    /\ dwPc' = "idle"
    /\ UNCHANGED <<lockKeeps, watching, ret, result, viewVars, m_db, databaseLocked,
                   savedInLock, mbVars>>

\* The operator selects a group and an entry of it, or none.
Selects(group, entry) ==
    /\ Idle
    /\ boxes = <<>>
    /\ mode = "ViewMode"
    /\ currentGroup' = group
    /\ currentEntry' = (IF group = NullUuid THEN NullUuid ELSE entry)
    /\ dwPc' = "idle"
    /\ UNCHANGED <<lockKeeps, watching, ret, result, mode, modified, m_groupBeforeLock,
                   m_entryBeforeLock, m_db, databaseLocked, savedInLock, mbVars>>

\* Lines 1091-1119: the operator has unlocked the database in the
\* open-database widget or dialog; found: the group and the entry
\* remembered at the lock are in the opened database.
unlockDatabase(found) ==
    /\ Idle
    /\ boxes = <<>>
    /\ isLocked
    /\ m_db' = 1 - m_db
    /\ modified' = FALSE
    /\ currentGroup' = (IF found THEN m_groupBeforeLock ELSE currentGroup)
    /\ currentEntry' = (IF found THEN m_entryBeforeLock ELSE currentEntry)
    /\ m_groupBeforeLock' = NullUuid
    /\ m_entryBeforeLock' = NullUuid
    /\ mode' = "ViewMode"
    /\ dwPc' = "idle"
    /\ UNCHANGED <<lockKeeps, watching, ret, result, databaseLocked, savedInLock, mbVars>>

\* Lines 423 and 1031-1051: the open-database widget that lock has made
\* current finishes. Accepted: replaceDatabase, switchToMainView, the file
\* is watched again; m_groupBeforeLock and m_entryBeforeLock are neither
\* used nor reset. Not accepted: the file is no longer watched and the
\* widget asks to be closed.
loadDatabase(accepted) ==
    /\ Idle
    /\ boxes = <<>>
    /\ isLocked
    /\ IF accepted
       THEN /\ m_db' = 1 - m_db
            /\ modified' = FALSE
            /\ mode' = "ViewMode"
            /\ watching' = TRUE
       ELSE /\ watching' = FALSE
            /\ UNCHANGED <<m_db, modified, mode>>
    /\ dwPc' = "idle"
    /\ UNCHANGED <<lockKeeps, ret, result, viewVars, databaseLocked, savedInLock, mbVars>>

InitLock ==
    /\ MbInitDual
    /\ debugBuild = FALSE
    /\ dwPc = "idle"
    /\ ret = "none"
    /\ DelInit
    /\ SaveInit
    /\ mode = "ViewMode"
    /\ modified = FALSE
    /\ AutoSaveOnExit \in BOOLEAN
    /\ result = QtNoButton
    /\ ViewInit
    /\ AutoReloadOnChange \in BOOLEAN
    /\ WatchInit
    /\ cancelled = 0
    /\ UrlInit

NextLock ==
    \/ \E b \in QtSetValues \cup {QtDiscard, QtNo} : ScriptsAnswer /\ setNextAnswerStd(b)
    \/ \E m \in {"ViewMode", "EditMode"}, e \in BOOLEAN : Operator(m, e)
    \/ \E found \in BOOLEAN : unlockDatabase(found)
    \/ lock
    \/ \E a \in {QtYes, QtDiscard, QtCancel} : lock_questionReturns(a)
    \/ lock_answered
    \/ \E saved \in BOOLEAN : lock_modified(saved)
    \/ \E saved \in BOOLEAN : lock_answered_save(saved)
    \/ \E gone \in BOOLEAN : FileChangesInDialog /\ onWatchedFileChanged(gone)
    \/ reloadDatabaseFile
    \/ \E b \in {QtYes, QtNo} : reload_questionReturns(b)
    \/ reload_answered
    \/ \E opened \in BOOLEAN : reload_open(opened)
    \/ reload_opened
    \/ reload_merge_answered

SpecLock == InitLock /\ [][NextLock]_vars

\* C16: scripted answers are not queued.  In lock() called in EditMode on
\* a modified database with AutoSaveOnExit off, the answer of one
\* setNextAnswer call is consumed by "Lock Database?", and "Save changes?"
\* finds m_nextAnswer empty and shows its dialog.
C16_NoQueue ==
    [][ /\ (Idle /\ dwPc' = "lock_answered") =>
              /\ IsOverrideReturn(last') /\ result' = m_nextAnswer
              /\ m_nextAnswer' = QtNoButton
        /\ (/\ dwPc = "lock_modified" /\ mode = "EditMode" /\ IsOverrideReturn(last)
            /\ modified /\ ~AutoSaveOnExit) =>
              /\ last'.op = "exec" /\ last'.path = "dialog" /\ last'.fn = "question"
              /\ last'.buttons = {QtYes, QtDiscard, QtCancel}
              /\ dwPc' = "lock_asking_save"
              /\ Len(boxes') = 1 ]_vars

C16_Witness ==
    /\ dwPc = "lock_asking_save"
    /\ mode = "EditMode"
    /\ result = QtDiscard
    /\ Len(setLog) = 1 /\ setLog[1].arg = QtDiscard /\ setLog[1].supplied = 1
    /\ m_nextAnswer = QtNoButton

(* ===================== DatabaseWidget::save / saveAs ==================== *)

\* Values of attempt the outermost save is called with: the default, the
\* value saveAs passes, and values inside and above the retry range.
SaveAttempts == {-1, 0, 1, 3}

\* save returns v.  Called by saveAs (lines 1771-1776) a false sends saveAs
\* round its loop and a true makes saveAs, and the save that called it,
\* return true; otherwise v goes to the caller of the widget.
SaveReturns(v) ==
    /\ ret' = v
    /\ IF saveAsDepth = 0 \/ v
       THEN dwPc' = "done" /\ saveAsDepth' = 0
       ELSE dwPc' = "saveAs_dialog" /\ saveAsDepth' = saveAsDepth

\* The operator, a test or lock() calls save(attempt).
save(a) ==
    /\ Idle
    /\ boxes = <<>>
    /\ firstAttempt' = a
    /\ attempt' = a
    /\ writes' = 0
    /\ errorShown' = FALSE
    /\ ret' = "none"
    /\ saveAsDepth' = 0
    /\ dwPc' = "save_call"
    /\ UNCHANGED <<debugBuild, urlVars, watchVars, cancelled, delVars, lockVars,
                   readOnly, hasPath, UseAtomicSaves, m_ignoreAutoReload,
                   m_fileWatchTimer, m_fileWatchUnblockTimer, ok, choice, mbVars>>

\* As blockAutoReload, but the unblock clears the flag at once.
blockAutoReload_ClearsAtOnce(block) ==
    IF block
    THEN /\ m_ignoreAutoReload' = TRUE
         /\ m_fileWatchTimer' = FALSE
         /\ cancelled' = cancelled + (IF m_fileWatchTimer THEN 1 ELSE 0)
         /\ UNCHANGED m_fileWatchUnblockTimer
    ELSE /\ m_ignoreAutoReload' = FALSE
         /\ UNCHANGED <<m_fileWatchTimer, m_fileWatchUnblockTimer, cancelled>>

\* Lines 1488-1496.  start(500) on the running single-shot timer restarts it.
blockAutoReload(block) ==
    IF block
    THEN /\ m_ignoreAutoReload' = TRUE
         /\ m_fileWatchTimer' = FALSE
         /\ cancelled' = cancelled + (IF m_fileWatchTimer THEN 1 ELSE 0)
         /\ UNCHANGED m_fileWatchUnblockTimer
    ELSE /\ m_fileWatchUnblockTimer' = TRUE
         /\ UNCHANGED <<m_ignoreAutoReload, m_fileWatchTimer, cancelled>>

\* Variant of save without the test of isLocked().
save_call_NoInterlock ==
    /\ dwPc = "save_call"
    /\ UNCHANGED <<debugBuild, urlVars, watchVars, delVars, lockVars, readOnly, hasPath,
                   firstAttempt, UseAtomicSaves, attempt, ok, choice, writes,
                   errorShown, mbVars>>
    /\ IF FALSE
       THEN /\ IF debugBuild
               THEN dwPc' = "aborted" /\ UNCHANGED <<ret, saveAsDepth>>
               ELSE SaveReturns(TRUE)
            /\ UNCHANGED <<m_ignoreAutoReload, m_fileWatchTimer, m_fileWatchUnblockTimer,
                           cancelled>>
       ELSE IF readOnly \/ ~hasPath
       THEN /\ dwPc' = "saveAs_dialog"
            /\ saveAsDepth' = saveAsDepth + 1
            /\ UNCHANGED <<ret, m_ignoreAutoReload, m_fileWatchTimer,
                           m_fileWatchUnblockTimer, cancelled>>
       ELSE /\ blockAutoReload(TRUE)
            /\ dwPc' = "save_writing"
            /\ UNCHANGED <<ret, saveAsDepth>>

\* Lines 1702-1716: one call of save(attempt), up to its return on a locked
\* widget, to the call of saveAs, or to blockAutoReload(true).
save_call ==
    /\ dwPc = "save_call"
    /\ UNCHANGED <<debugBuild, urlVars, watchVars, delVars, lockVars, readOnly, hasPath,
                   firstAttempt, UseAtomicSaves, attempt, ok, choice, writes,
                   errorShown, mbVars>>
    /\ IF isLocked
       THEN /\ IF debugBuild
               THEN dwPc' = "aborted" /\ UNCHANGED <<ret, saveAsDepth>>
               ELSE SaveReturns(TRUE)
            /\ UNCHANGED <<m_ignoreAutoReload, m_fileWatchTimer, m_fileWatchUnblockTimer,
                           cancelled>>
       ELSE IF readOnly \/ ~hasPath
       THEN /\ dwPc' = "saveAs_dialog"
            /\ saveAsDepth' = saveAsDepth + 1
            /\ UNCHANGED <<ret, m_ignoreAutoReload, m_fileWatchTimer,
                           m_fileWatchUnblockTimer, cancelled>>
       ELSE /\ blockAutoReload(TRUE)
            /\ dwPc' = "save_writing"
            /\ UNCHANGED <<ret, saveAsDepth>>

\* Variant of save that also retries for attempt -1.
save_written_RetriesFromMinusOne(written) ==
    /\ dwPc = "save_writing"
    /\ UNCHANGED <<debugBuild, urlVars, watchVars, delVars, mode, AutoSaveOnExit, result,
                   viewVars, m_db, databaseLocked, savedInLock, readOnly, hasPath,
                   firstAttempt>>
    /\ writes' = writes + 1
    /\ ok' = written
    /\ modified' = (modified /\ ~written)
    /\ blockAutoReload(FALSE)
    /\ IF written
       THEN /\ SaveReturns(TRUE)
            /\ UNCHANGED <<UseAtomicSaves, attempt, choice, errorShown, mbVars>>
       ELSE IF attempt >= -1 /\ attempt <= 2
       THEN /\ attempt' = attempt + 1
            /\ dwPc' = "save_call"
            /\ UNCHANGED <<ret, saveAsDepth, UseAtomicSaves, choice, errorShown, mbVars>>
       ELSE IF attempt > 2 /\ UseAtomicSaves
       THEN /\ questionStd({QtYes, QtNo}, QtYes)
            /\ IF Returned(last')
               THEN choice' = last'.val /\ dwPc' = "save_answered"
               ELSE choice' = choice /\ dwPc' = "save_asking"
            /\ UNCHANGED <<ret, saveAsDepth, UseAtomicSaves, attempt, errorShown>>
       ELSE /\ errorShown' = TRUE
            /\ SaveReturns(FALSE)
            /\ UNCHANGED <<UseAtomicSaves, attempt, choice, mbVars>>

\* Variant of save whose retry range ends at attempt 3.
save_written_RetriesOnceMore(written) ==
    /\ dwPc = "save_writing"
    /\ UNCHANGED <<debugBuild, urlVars, watchVars, delVars, mode, AutoSaveOnExit, result,
                   viewVars, m_db, databaseLocked, savedInLock, readOnly, hasPath,
                   firstAttempt>>
    /\ writes' = writes + 1
    /\ ok' = written
    /\ modified' = (modified /\ ~written)
    /\ blockAutoReload(FALSE)
    /\ IF written
       THEN /\ SaveReturns(TRUE)
            /\ UNCHANGED <<UseAtomicSaves, attempt, choice, errorShown, mbVars>>
       ELSE IF attempt >= 0 /\ attempt <= 3
       THEN /\ attempt' = attempt + 1
            /\ dwPc' = "save_call"
            /\ UNCHANGED <<ret, saveAsDepth, UseAtomicSaves, choice, errorShown, mbVars>>
       ELSE IF attempt > 2 /\ UseAtomicSaves
       THEN /\ questionStd({QtYes, QtNo}, QtYes)
            /\ IF Returned(last')
               THEN choice' = last'.val /\ dwPc' = "save_answered"
               ELSE choice' = choice /\ dwPc' = "save_asking"
            /\ UNCHANGED <<ret, saveAsDepth, UseAtomicSaves, attempt, errorShown>>
       ELSE /\ errorShown' = TRUE
            /\ SaveReturns(FALSE)
            /\ UNCHANGED <<UseAtomicSaves, attempt, choice, mbVars>>

\* Lines 1717-1739 and 1746-1747: m_db->save, which does not return to the
\* event loop (line 1717), has ended with the outcome written (a database
\* that was written is no longer modified); then
\* blockAutoReload(false) and the return, the recursive call
\* save(attempt + 1), or the "Disable safe saves?" question.
save_written(written) ==
    /\ dwPc = "save_writing"
    /\ UNCHANGED <<debugBuild, urlVars, watchVars, delVars, mode, AutoSaveOnExit, result,
                   viewVars, m_db, databaseLocked, savedInLock, readOnly, hasPath,
                   firstAttempt>>
    /\ writes' = writes + 1
    /\ ok' = written
    /\ modified' = (modified /\ ~written)
    /\ blockAutoReload(FALSE)
    /\ IF written
       THEN /\ SaveReturns(TRUE)
            /\ UNCHANGED <<UseAtomicSaves, attempt, choice, errorShown, mbVars>>
       ELSE IF attempt >= 0 /\ attempt <= 2
       THEN /\ attempt' = attempt + 1
            /\ dwPc' = "save_call"
            /\ UNCHANGED <<ret, saveAsDepth, UseAtomicSaves, choice, errorShown, mbVars>>
       ELSE IF attempt > 2 /\ UseAtomicSaves
       THEN /\ questionStd({QtYes, QtNo}, QtYes)
            /\ IF Returned(last')
               THEN choice' = last'.val /\ dwPc' = "save_answered"
               ELSE choice' = choice /\ dwPc' = "save_asking"
            /\ UNCHANGED <<ret, saveAsDepth, UseAtomicSaves, attempt, errorShown>>
       ELSE /\ errorShown' = TRUE
            /\ SaveReturns(FALSE)
            /\ UNCHANGED <<UseAtomicSaves, attempt, choice, mbVars>>

\* QMessageBox::question of "Disable safe saves?" returns.
save_questionReturns(standardButton) ==
    /\ dwPc = "save_asking"
    /\ reloadStack = <<>>
    /\ Len(boxes) = 1
    /\ qtReturns(standardButton)
    /\ choice' = last'.val
    /\ dwPc' = "save_answered"
    /\ UNCHANGED <<debugBuild, urlVars, watchVars, cancelled, ret, delVars, lockVars,
                   readOnly, hasPath, UseAtomicSaves, m_ignoreAutoReload,
                   m_fileWatchTimer, m_fileWatchUnblockTimer, firstAttempt, attempt, ok,
                   saveAsDepth, writes, errorShown>>

\* Lines 1740-1747: the answer to "Disable safe saves?".
save_answered ==
    /\ dwPc = "save_answered"
    /\ UNCHANGED <<debugBuild, urlVars, watchVars, cancelled, delVars, lockVars,
                   readOnly, hasPath, m_ignoreAutoReload, m_fileWatchTimer,
                   m_fileWatchUnblockTimer, firstAttempt, ok, choice, writes, mbVars>>
    /\ IF choice = QtYes
       THEN /\ UseAtomicSaves' = FALSE
            /\ attempt' = attempt + 1
            /\ dwPc' = "save_call"
            /\ UNCHANGED <<ret, saveAsDepth, errorShown>>
       ELSE /\ errorShown' = TRUE
            /\ SaveReturns(FALSE)
            /\ UNCHANGED <<UseAtomicSaves, attempt>>

\* The operator chooses "Save database as": saveAs up to getSaveFileName.
saveAs ==
    /\ Idle
    /\ boxes = <<>>
    /\ saveAsDepth' = 1
    /\ writes' = 0
    /\ errorShown' = FALSE
    /\ ret' = "none"
    /\ dwPc' = "saveAs_dialog"
    /\ UNCHANGED <<debugBuild, urlVars, watchVars, cancelled, delVars, lockVars,
                   readOnly, hasPath, UseAtomicSaves, m_ignoreAutoReload,
                   m_fileWatchTimer, m_fileWatchUnblockTimer, firstAttempt, attempt, ok,
                   choice, mbVars>>

\* Variant of saveAs without m_db->setReadOnly(false).
saveAs_fileName_KeepsReadOnly(chosen) ==
    /\ dwPc = "saveAs_dialog"
    /\ UNCHANGED <<debugBuild, urlVars, watchVars, cancelled, delVars, lockVars,
                   UseAtomicSaves, m_ignoreAutoReload, m_fileWatchTimer,
                   m_fileWatchUnblockTimer, ok, choice, errorShown, mbVars>>
    /\ IF chosen
       THEN /\ readOnly' = readOnly
            /\ hasPath' = TRUE
            /\ firstAttempt' = -1
            /\ attempt' = -1
            /\ writes' = 0
            /\ dwPc' = "save_call"
            /\ UNCHANGED <<ret, saveAsDepth>>
       ELSE /\ ret' = FALSE
            /\ saveAsDepth' = saveAsDepth - 1
            /\ dwPc' = (IF saveAsDepth' = 0 THEN "done" ELSE "saveAs_dialog")
            /\ UNCHANGED <<readOnly, hasPath, firstAttempt, attempt, writes>>

\* Lines 1763-1781: getSaveFileName returns a file name (chosen) or the
\* empty string; with a name saveAs calls save(-1).
saveAs_fileName(chosen) ==
    /\ dwPc = "saveAs_dialog"
    /\ UNCHANGED <<debugBuild, urlVars, watchVars, cancelled, delVars, lockVars,
                   UseAtomicSaves, m_ignoreAutoReload, m_fileWatchTimer,
                   m_fileWatchUnblockTimer, ok, choice, errorShown, mbVars>>
    /\ IF chosen
       THEN /\ readOnly' = FALSE
            /\ hasPath' = TRUE
            /\ firstAttempt' = -1
            /\ attempt' = -1
            /\ writes' = 0
            /\ dwPc' = "save_call"
            /\ UNCHANGED <<ret, saveAsDepth>>
       ELSE /\ ret' = FALSE
            /\ saveAsDepth' = saveAsDepth - 1
            /\ dwPc' = (IF saveAsDepth' = 0 THEN "done" ELSE "saveAs_dialog")
            /\ UNCHANGED <<readOnly, hasPath, firstAttempt, attempt, writes>>

\* Lines 1498-1502 and 1463-1486: m_fileWatchUnblockTimer fires;
\* updateFilePath watches the path of the database again.
unblockAutoReload ==
    /\ EventLoop
    /\ m_fileWatchUnblockTimer
    /\ m_fileWatchUnblockTimer' = FALSE
    /\ m_ignoreAutoReload' = FALSE
    /\ watching' = hasPath
    /\ UNCHANGED <<handlerVars, m_db, modified, m_fileWatchTimer, reloadStack,
                   replacements, arms, reloadCalls, cancelled, mbVars>>

InitSave ==
    /\ MbInitDual
    /\ debugBuild \in BOOLEAN
    /\ dwPc = "idle"
    /\ ret = "none"
    /\ DelInit
    /\ mode \in {"ViewMode", "LockedMode"}
    /\ modified = TRUE
    /\ AutoSaveOnExit = FALSE
    /\ result = QtNoButton
    /\ ViewInit
    /\ readOnly \in BOOLEAN
    /\ hasPath \in BOOLEAN
    /\ UseAtomicSaves \in BOOLEAN
    /\ m_ignoreAutoReload = FALSE
    /\ m_fileWatchTimer = FALSE
    /\ m_fileWatchUnblockTimer = FALSE
    /\ firstAttempt = 0
    /\ attempt = 0
    /\ ok = TRUE
    /\ choice = QtNoButton
    /\ saveAsDepth = 0
    /\ writes = 0
    /\ errorShown = FALSE
    /\ AutoReloadOnChange = FALSE
    /\ WatchInit
    /\ cancelled = 0
    /\ UrlInit

NextSave ==
    \/ \E b \in QtSetValues \cup {QtNo} : ScriptsAnswer /\ setNextAnswerStd(b)
    \/ \E a \in SaveAttempts : save(a)
    \/ save_call
    \/ \E written \in BOOLEAN : save_written(written)
    \/ \E b \in {QtYes, QtNo} : save_questionReturns(b)
    \/ save_answered
    \/ saveAs
    \/ \E chosen \in BOOLEAN : saveAs_fileName(chosen)
    \/ unblockAutoReload
    \/ \E gone \in BOOLEAN : FileChangesInDialog /\ onWatchedFileChanged(gone)
    \/ reloadDatabaseFile
    \/ \E b \in {QtYes, QtNo} : reload_questionReturns(b)
    \/ reload_answered
    \/ \E opened \in BOOLEAN : reload_open(opened)
    \/ reload_opened
    \/ reload_merge_answered

SpecSave == InitSave /\ [][NextSave]_vars

\* The save in progress is at its "Disable safe saves?" question or has its
\* answer.
AsksToDisableSafeSaves == dwPc \in {"save_asking", "save_answered"}

\* C18: save started at attempt 0 with safe saves on asks "Disable safe
\* saves?" after exactly three consecutive failed write attempts, not later.
C18_AsksAfterThirdFailure ==
    (firstAttempt = 0 /\ AsksToDisableSafeSaves /\ UseAtomicSaves) => writes = 3

\* C19: save(-1) on an unlocked, writable database with a file path writes
\* exactly once, asks no question and leaves UseAtomicSaves alone; if the
\* write fails it shows the error and returns false.
C19_MinusOneWritesOnce ==
    [][ /\ (/\ dwPc = "save_call" /\ attempt = -1
            /\ ~isLocked /\ ~readOnly /\ hasPath) =>
              /\ dwPc' = "save_writing"
              /\ UNCHANGED <<attempt, writes, UseAtomicSaves, boxes, last, m_nextAnswer>>
        /\ (dwPc = "save_writing" /\ attempt = -1) =>
              /\ writes = 0 /\ writes' = 1
              /\ attempt' = -1 /\ dwPc' \notin {"save_call", "save_writing"}
              /\ ~AsksToDisableSafeSaves'
              /\ UNCHANGED <<UseAtomicSaves, boxes, last, m_nextAnswer>>
              /\ IF ok' THEN ret' = TRUE /\ errorShown' = errorShown
                        ELSE ret' = FALSE /\ errorShown' ]_vars

C19_Witness ==
    /\ dwPc = "done"
    /\ firstAttempt = -1 /\ saveAsDepth = 0
    /\ writes = 1 /\ ~ok
    /\ ret = FALSE /\ errorShown
    /\ UseAtomicSaves
    /\ m_nextAnswer = QtYes

\* A call of save on a locked widget writes nothing: no m_db->save, no
\* saveAs, m_ignoreAutoReload and both timers as they were, no question.
LockedSaveWritesNothing ==
    /\ writes' = writes
    /\ saveAsDepth' <= saveAsDepth /\ dwPc' # "saveAs_dialog"
    /\ UNCHANGED <<m_ignoreAutoReload, m_fileWatchTimer, m_fileWatchUnblockTimer,
                   modified, readOnly, hasPath, UseAtomicSaves, boxes, last>>

\* C20: in LockedMode save(attempt) returns true for every attempt without
\* calling the database's save or saveAs and without touching the
\* auto-reload block.
C20_LockedSaveReturnsTrue ==
    [][ (dwPc = "save_call" /\ isLocked) =>
           /\ LockedSaveWritesNothing
           /\ dwPc' = "done" /\ ret' = TRUE ]_vars

\* C20, amended: in LockedMode save(attempt) writes nothing for every
\* attempt; where Q_ASSERT is compiled out it returns true, where Q_ASSERT
\* is compiled in the assertion of line 1705 stops the program instead.
C20_LockedSaveNeverWrites ==
    [][ (dwPc = "save_call" /\ isLocked) =>
           /\ LockedSaveWritesNothing
           /\ IF debugBuild
              THEN dwPc' = "aborted" /\ ret' = ret
              ELSE dwPc' = "done" /\ ret' = TRUE ]_vars

C20_Witness ==
    /\ isLocked
    /\ ~debugBuild
    /\ dwPc = "done"
    /\ ret = TRUE
    /\ firstAttempt = 3
    /\ writes = 0
    /\ ~m_ignoreAutoReload /\ ~m_fileWatchUnblockTimer

\* C21: the retry loop of save ends.  save(0) on an unlocked, writable
\* database with a file path calls m_db->save at most five times whatever
\* fails and whatever is answered, and after an answer other than Yes to
\* "Disable safe saves?" it writes no more and returns false.
C21_SaveRetriesEnd ==
    /\ [](firstAttempt = 0 => writes <= 5)
    /\ [][ (dwPc = "save_answered" /\ choice # QtYes) =>
              /\ writes' = writes
              /\ dwPc' = "done" /\ ret' = FALSE ]_vars

C21_Witness ==
    /\ firstAttempt = 0
    /\ writes = 5
    /\ dwPc = "done"
    /\ ret = FALSE

\* What C22 says of saveAs apart from its true return: saveAs is never
\* entered while it runs, save(-1) is called with the read-only flag cleared
\* and a file path set, a failed write is followed by the next prompt, and
\* false is returned only from a cancelled file selection.
SaveAsLoop ==
    /\ saveAsDepth' <= 1
    /\ (dwPc = "saveAs_dialog" /\ dwPc' = "save_call") =>
          ~readOnly' /\ hasPath' /\ attempt' = -1
    /\ (saveAsDepth > 0 /\ writes' = writes + 1 /\ ~ok') =>
          dwPc' = "saveAs_dialog" /\ saveAsDepth' = saveAsDepth
    /\ (saveAsDepth > 0 /\ dwPc' = "done" /\ ret' = FALSE) =>
          dwPc = "saveAs_dialog"

\* saveAs returns true in this step.
SaveAsReturnsTrue == saveAsDepth > 0 /\ dwPc' = "done" /\ ret' = TRUE

InitWatch ==
    /\ MbInitDual
    /\ debugBuild = FALSE
    /\ dwPc = "idle"
    /\ ret = "none"
    /\ DelInit
    /\ mode \in {"ViewMode", "LockedMode"}
    /\ modified \in BOOLEAN
    /\ AutoSaveOnExit = FALSE
    /\ result = QtNoButton
    /\ ViewInit
    /\ readOnly = FALSE
    /\ hasPath = TRUE
    /\ UseAtomicSaves = FALSE
    /\ m_ignoreAutoReload = FALSE
    /\ m_fileWatchTimer = FALSE
    /\ m_fileWatchUnblockTimer = FALSE
    /\ firstAttempt = 0
    /\ attempt = 0
    /\ ok = TRUE
    /\ choice = QtNoButton
    /\ saveAsDepth = 0
    /\ writes = 0
    /\ errorShown = FALSE
    /\ AutoReloadOnChange \in BOOLEAN
    /\ WatchInit
    /\ cancelled = 0
    /\ UrlInit

NextWatch ==
    \/ \E b \in {QtYes, QtNo} : ScriptsAnswer /\ setNextAnswerStd(b)
    \/ \E a \in {-1, 0} : save(a)
    \/ save_call
    \/ \E written \in BOOLEAN : save_written(written)
    \/ unblockAutoReload
    \/ \E gone \in BOOLEAN : onWatchedFileChanged(gone)
    \/ reloadDatabaseFile
    \/ \E b \in {QtYes, QtNo} : reload_questionReturns(b)
    \/ reload_answered
    \/ \E opened \in BOOLEAN : reload_open(opened)
    \/ reload_opened
    \/ reload_merge_answered

SpecWatch == InitWatch /\ [][NextWatch]_vars

(* ------------------ the file watcher and its two timers ----------------- *)

\* m_fileWatchTimer is active and has not fired.
Pending == IF m_fileWatchTimer THEN 1 ELSE 0

\* C23: a file change arms the single-shot reload timer only while
\* auto-reload is not ignored and the timer is not active; an event that
\* finds the timer active neither restarts it nor schedules a second reload;
\* every arming ends in one reloadDatabaseFile call, or in none when
\* blockAutoReload(true) stops the timer first.
C23_Debounce ==
    /\ [](arms = reloadCalls + cancelled + Pending)
    /\ [][/\ arms' # arms =>
                /\ ~m_ignoreAutoReload /\ ~m_fileWatchTimer
                /\ m_fileWatchTimer' /\ arms' = arms + 1
          /\ (m_fileWatchTimer' /\ ~m_fileWatchTimer) => arms' = arms + 1
          /\ reloadCalls' # reloadCalls =>
                /\ m_fileWatchTimer /\ ~m_fileWatchTimer'
                /\ reloadCalls' = reloadCalls + 1
          /\ (m_ignoreAutoReload' /\ ~m_ignoreAutoReload) =>
                /\ ~m_fileWatchTimer'
                /\ reloadCalls' = reloadCalls]_vars

\* One arming has ended in a reload, another was stopped by a save.
C23_Witness == arms = 2 /\ reloadCalls = 1 /\ cancelled = 1

\* A blockAutoReload(true) waits for its blockAutoReload(false), or the
\* unblock timer started by the last blockAutoReload(false) has not fired.
BlockWindow == dwPc = "save_writing" \/ m_fileWatchUnblockTimer

\* C24: from blockAutoReload(true) until the unblock timer of the matching
\* blockAutoReload(false) fires, m_ignoreAutoReload is true and no file
\* change arms the reload timer; the flag is cleared by the expiry of the
\* unblock timer only, and never while a blockAutoReload(true) waits for
\* its blockAutoReload(false).
C24_BlockedForTheWindow ==
    /\ [](BlockWindow => m_ignoreAutoReload /\ ~m_fileWatchTimer)
    /\ [][/\ BlockWindow => arms' = arms
          /\ (m_ignoreAutoReload /\ ~m_ignoreAutoReload') =>
                /\ dwPc # "save_writing"
                /\ m_fileWatchUnblockTimer /\ ~m_fileWatchUnblockTimer']_vars

\* A retried save has called blockAutoReload(true) while the unblock timer
\* of the attempt before is running, after an armed reload was stopped.
C24_Witness == dwPc = "save_writing" /\ m_fileWatchUnblockTimer /\ cancelled = 1

(* ==================== DatabaseWidget::openUrlForEntry =================== *)

\* Resolved URLs: command URLs with and without a command, and a web URL.
Urls == {"cmd://", "cmd://x", "https://"}

\* cmdString.startsWith("cmd://")
IsCmd(url) == url \in {"cmd://", "cmd://x"}

\* Values of the attribute RememberCmdExecAttr; "none": the key is absent.
AttrValues == {"none", "0", "1", "true"}

\* As openUrlForEntry, but any stored decision other than "0" executes.
openUrlForEntry_ExecutesUnlessZero(url) ==
    /\ Idle
    /\ boxes = <<>>
    /\ cmdString' = url
    /\ IF IsCmd(url) /\ RememberCmdExecAttr # "none"
       THEN /\ started' = (RememberCmdExecAttr # "0")
            /\ prompted' = FALSE
            /\ dwPc' = "done"
            /\ UNCHANGED <<checkbox, remember>>
       ELSE IF url = "cmd://x"
       THEN /\ started' = FALSE
            /\ prompted' = TRUE
            /\ checkbox' = FALSE
            /\ remember' = FALSE
            /\ dwPc' = "url_asking"
       ELSE /\ started' = FALSE
            /\ prompted' = FALSE
            /\ dwPc' = "done"
            /\ UNCHANGED <<checkbox, remember>>
    /\ UNCHANGED <<debugBuild, ret, delVars, lockVars, saveVars, watchVars, cancelled,
                   RememberCmdExecAttr, msgboxResult, mbVars>>

\* Lines 839-872 and 884-890: from the entry of openUrlForEntry to its
\* return or to msgbox.exec().
openUrlForEntry(url) ==
    /\ Idle
    /\ boxes = <<>>
    /\ cmdString' = url
    /\ IF IsCmd(url) /\ RememberCmdExecAttr # "none"
       THEN /\ started' = (RememberCmdExecAttr = "1")
            /\ prompted' = FALSE
            /\ dwPc' = "done"
            /\ UNCHANGED <<checkbox, remember>>
       ELSE IF url = "cmd://x"
       THEN /\ started' = FALSE
            /\ prompted' = TRUE
            /\ checkbox' = FALSE
            /\ remember' = FALSE
            /\ dwPc' = "url_asking"
       ELSE /\ started' = FALSE
            /\ prompted' = FALSE
            /\ dwPc' = "done"
            /\ UNCHANGED <<checkbox, remember>>
    /\ UNCHANGED <<debugBuild, ret, delVars, lockVars, saveVars, watchVars, cancelled,
                   RememberCmdExecAttr, msgboxResult, mbVars>>

\* Lines 867-872: the operator clicks "Remember my choice"; the lambda
\* connected to stateChanged sets remember on Checked and does nothing else.
checkbox_stateChanged ==
    /\ dwPc = "url_asking"
    /\ checkbox' = ~checkbox
    /\ remember' = (IF checkbox' THEN TRUE ELSE remember)
    /\ UNCHANGED <<debugBuild, dwPc, ret, delVars, lockVars, saveVars, watchVars,
                   cancelled, cmdString, RememberCmdExecAttr, msgboxResult, prompted,
                   started, mbVars>>

\* Lines 874-882: msgbox.exec() returns the button of the prompt.
openUrlForEntry_execReturns(button) ==
    /\ dwPc = "url_asking"
    /\ msgboxResult' = button
    /\ started' = (button = QtYes)
    /\ RememberCmdExecAttr' =
          (IF remember
           THEN (IF button = QtYes THEN "1" ELSE "0")
           ELSE RememberCmdExecAttr)
    /\ dwPc' = "done"
    /\ UNCHANGED <<debugBuild, ret, delVars, lockVars, saveVars, watchVars, cancelled,
                   cmdString, checkbox, remember, prompted, mbVars>>

\* The operator edits the attributes of the entry between two calls.
EditsAttribute(v) ==
    /\ Idle
    /\ boxes = <<>>
    /\ RememberCmdExecAttr' = v
    /\ dwPc' = "idle"
    /\ UNCHANGED <<debugBuild, ret, delVars, lockVars, saveVars, watchVars, cancelled,
                   cmdString, checkbox, remember, msgboxResult, prompted, started,
                   mbVars>>

InitOpenUrl ==
    /\ MbInitDual
    /\ debugBuild = FALSE
    /\ dwPc = "idle"
    /\ ret = "none"
    /\ DelInit
    /\ LockInit
    /\ SaveInit
    /\ AutoReloadOnChange = FALSE
    /\ WatchInit
    /\ cancelled = 0
    /\ cmdString \in Urls
    /\ RememberCmdExecAttr \in AttrValues
    /\ checkbox = FALSE
    /\ remember = FALSE
    /\ msgboxResult = QtNoButton
    /\ prompted = FALSE
    /\ started = FALSE

NextOpenUrl ==
    \/ \E url \in Urls : openUrlForEntry(url)
    \/ checkbox_stateChanged
    \/ \E button \in {QtYes, QtNo} : openUrlForEntry_execReturns(button)
    \/ \E v \in AttrValues : EditsAttribute(v)

SpecOpenUrl == InitOpenUrl /\ [][NextOpenUrl]_vars

\* A step that enters openUrlForEntry.
UrlCall == dwPc \in {"idle", "done"} /\ dwPc' \in {"done", "url_asking"}

\* C27: openUrlForEntry starts the command of a cmd:// URL only when the
\* stored decision is "1", or when none is stored and the operator answers
\* Yes to "Execute command?"; with a decision stored there is no prompt, and
\* a stored value other than "1" never starts the command.
C27_ExecutesOnlyOnConsent ==
    [][/\ UrlCall =>
             /\ started' => IsCmd(cmdString') /\ RememberCmdExecAttr = "1"
             /\ prompted' => IsCmd(cmdString') /\ RememberCmdExecAttr = "none"
             /\ RememberCmdExecAttr \notin {"none", "1"} /\ IsCmd(cmdString')
                   => ~started' /\ ~prompted'
       /\ dwPc = "url_asking" =>
             /\ started' => dwPc' = "done" /\ msgboxResult' = QtYes
             /\ RememberCmdExecAttr = "none"]_vars

\* The operator has answered Yes and the command was started.
C27_Witness == dwPc = "done" /\ prompted /\ started /\ msgboxResult = QtYes

\* C28: the decision is written to the entry exactly when "Remember my
\* choice" is checked as the prompt closes, whatever was clicked before: "1"
\* for Yes, "0" for any other answer.
C28_RememberedIffChecked ==
    [][(dwPc = "url_asking" /\ dwPc' = "done") =>
          RememberCmdExecAttr' =
             (IF checkbox
              THEN (IF msgboxResult' = QtYes THEN "1" ELSE "0")
              ELSE RememberCmdExecAttr)]_vars

(* -------------------------- reloadDatabaseFile -------------------------- *)

\* A reloadDatabaseFile execution returns.
ReloadReturns == Len(reloadStack') < Len(reloadStack)

\* C25: a reloadDatabaseFile execution that passes the guard on a missing
\* or locked database has added the path of the database file to the file
\* watcher when it returns, whether the reload was declined, done, or the
\* file could not be opened; an execution that hits the guard returns at
\* once and changes nothing.
C25_RewatchesOnEveryPath ==
    [][/\ ReloadReturns => watching'
       /\ reloadCalls' # reloadCalls =>
             IF isLocked
             THEN UNCHANGED <<handlerVars, m_db, modified, m_ignoreAutoReload,
                              m_fileWatchUnblockTimer, watching, reloadStack,
                              replacements, arms, cancelled, mbVars>>
             ELSE Len(reloadStack') = Len(reloadStack) + 1]_vars

\* Two executions on the unlocked widget have returned, the second one after
\* a file change that reached the widget through the watcher.
C25_Witness ==
    /\ reloadCalls = 2 /\ arms = 2 /\ reloadStack = <<>>
    /\ ~isLocked /\ watching /\ ~m_fileWatchTimer

\* C26: a reload that does not load the file (No to "File has changed", or
\* a file that cannot be opened) keeps the database object and marks it
\* modified; the database is replaced exactly when the file was opened and
\* the answer to "File has changed" was not No.
C26_NotLoadedMeansModified ==
    [][IF ReloadReturns
       THEN IF Top.opened /\ Top.result # QtNo
            THEN replacements' = replacements + 1
            ELSE replacements' = replacements /\ modified'
       ELSE replacements' = replacements]_vars

\* A reload has replaced the database and a later one, which found the file
\* unreadable, is about to return.
C26_Witness ==
    /\ replacements = 1 /\ reloadStack # <<>>
    /\ Top.pc = "opened" /\ ~Top.opened /\ ~modified

(* ============== DatabaseWidget::lock with the views in use ============== *)

\* The operator selects, edits, locks and unlocks; nothing is scripted, and
\* the database file may change while a dialog of lock is open.
InitLockView ==
    /\ MbInitDual
    /\ debugBuild = FALSE
    /\ dwPc = "idle"
    /\ ret = "none"
    /\ DelInit
    /\ SaveInit
    /\ mode = "ViewMode"
    /\ modified = FALSE
    /\ AutoSaveOnExit \in BOOLEAN
    /\ result = QtNoButton
    /\ ViewInit
    /\ AutoReloadOnChange = TRUE
    /\ WatchInit
    /\ cancelled = 0
    /\ UrlInit

NextLockView ==
    \/ \E m \in {"ViewMode", "EditMode"}, e \in BOOLEAN : Operator(m, e)
    \/ \E g \in {NullUuid} \cup GroupUuids, e \in {NullUuid} \cup EntryUuids : Selects(g, e)
    \/ \E found \in BOOLEAN : unlockDatabase(found)
    \/ \E accepted \in BOOLEAN : loadDatabase(accepted)
    \/ lock
    \/ \E a \in {QtYes, QtDiscard, QtCancel} : lock_questionReturns(a)
    \/ lock_answered
    \/ \E saved \in BOOLEAN : lock_modified(saved)
    \/ \E saved \in BOOLEAN : lock_answered_save(saved)
    \/ \E gone \in BOOLEAN : FileChangesInDialog /\ onWatchedFileChanged(gone)
    \/ reloadDatabaseFile
    \/ \E b \in {QtYes, QtNo} : reload_questionReturns(b)
    \/ \E opened \in BOOLEAN : reload_open(opened)
    \/ reload_opened
    \/ reload_merge_answered

SpecLockView == InitLockView /\ [][NextLockView]_vars

\* Positions inside lock.
LockPcs == {"lock_asking", "lock_answered", "lock_modified", "lock_asking_save",
            "lock_answered_save"}

\* A step of lock itself: its entry or a step from one of its positions,
\* not a step of reloadDatabaseFile running inside one of its dialogs.
LockStep == dwPc' # dwPc /\ (dwPc \in LockPcs \/ dwPc' \in LockPcs \cup {"done"})

\* lock returns in this step.
LockReturns == LockStep /\ dwPc' = "done"

\* C29: lock returns true exactly when the widget is in LockedMode on
\* return; a step of lock that does not lock, and with it every false
\* return, leaves the current widget, the database object and
\* m_groupBeforeLock / m_entryBeforeLock as they are and emits nothing;
\* databaseLocked is emitted exactly by the step that takes the widget from
\* a mode other than LockedMode to LockedMode.
C29_TrueIffLocked ==
    [][LockStep =>
          /\ LockReturns => (ret' = TRUE <=> mode' = "LockedMode")
          /\ databaseLocked' <=> (mode # "LockedMode" /\ mode' = "LockedMode")
          /\ ~databaseLocked' =>
                UNCHANGED <<mode, m_db, m_groupBeforeLock, m_entryBeforeLock>>]_vars

\* lock has returned false on a widget that an earlier lock had locked with
\* a group and an entry selected.
C29_Witness ==
    /\ dwPc = "done" /\ ret = FALSE /\ ~databaseLocked
    /\ mode = "EditMode" /\ m_db = 0 /\ currentEntry = "entry"

\* C30: a lock call that finds the database modified and returns true has
\* saved it (AutoSaveOnExit, or Yes to "Save changes?"), or "Save changes?"
\* has returned Discard.
C30_SavedOrDiscarded ==
    [][/\ (dwPc = "lock_modified" /\ modified /\ LockReturns /\ ret' = TRUE)
             => savedInLock'
       /\ (dwPc = "lock_answered_save" /\ LockReturns /\ ret' = TRUE)
             => (result = QtYes /\ savedInLock') \/ result = QtDiscard]_vars

\* C31: whenever a lock call locks the widget and returns true,
\* m_entryBeforeLock is the uuid of the entry that was current at that
\* lock, or the null uuid if no entry was current: a value remembered by
\* an earlier lock is never carried over.
C31_RemembersThisLock ==
    [][(LockReturns /\ ret' = TRUE /\ databaseLocked')
          => m_entryBeforeLock' = currentEntry]_vars

\* Positions of deleteEntries past its test for an empty selection.
DeletePcs == {"asking", "answered", "set", "asking2", "recycle_exec"}

\* The entries of sel have gone to the state to, the others are as they were.
Becomes(sel, to) ==
    entryState' = [e \in Entries |-> IF e \in sel THEN to ELSE entryState[e]]

\* C32: entries change only in two ways: in the permanent-delete branch the
\* selected entries are deleted by the step that follows a first newQuestion
\* that returned Delete (any other answer, scripted or clicked, deletes
\* nothing), and in the recycle-bin branch the selected entries go to the
\* recycle bin when the prompt was closed with a button other than Cancel;
\* with an empty selection deleteEntries reaches no prompt and changes no
\* entry.
C32_NothingDestroyedUnconfirmed ==
    /\ [](selected = {} => dwPc \notin DeletePcs)
    /\ [][/\ (entryState' # entryState) =>
               (\/ /\ dwPc = "answered" /\ PermanentBranch
                   /\ Returned(last) /\ last.fn = "newQuestion" /\ last.val = Delete
                   /\ Becomes(selected, "deleted")
                \/ /\ dwPc = "recycle_exec" /\ selected # {} /\ ~PermanentBranch
                   /\ question_clickedButton' # "Cancel"
                   /\ Becomes(selected, "bin"))
          /\ (dwPc = "answered" /\ answer # Delete) => UNCHANGED entryState
          /\ (dwPc = "recycle_exec" /\ question_clickedButton' = "Cancel")
                => UNCHANGED entryState]_vars

\* Entry 2 was moved to the recycle bin and then deleted for good, each
\* time after a confirmation; the prompt for entry 1 was cancelled and
\* entry 1 is where it was.
C32_Witness ==
    /\ dwPc = "done" /\ recycleBinEnabled
    /\ selected = {1} /\ question_clickedButton = "Cancel"
    /\ entryState[1] = "group" /\ entryState[2] = "deleted"
====
